---------------------------- MODULE Spec2Model ----------------------------
(***************************************************************************)
(* State-machine model of the mg toolkit: the PostgresManager write path,  *)
(* the hermes cartographers, the Pub/Sub publisher, the Cloud Run job      *)
(* runner and the processing-request runner.  Each subsystem has its own   *)
(* specification (SpecInsert, SpecCarto, SpecRate, SpecFallback, SpecJobs, *)
(* SpecRunner); the variables of the other subsystems stay at their        *)
(* initial value under it.                                                 *)
(***************************************************************************)
EXTENDS Integers, Sequences, FiniteSets, TLC

VARIABLES
    \* ---- PostgresManager (src/mg/db/postgres_manager.py)
    pk,            \* primary key of the target table: a sequence of column names, <<>> for none
    table,         \* committed rows of the target table
    txTable,       \* the rows as seen inside the connection's open transaction
    conn,          \* self.connection: [closed, autocommit, status]
    call,          \* the insert_rows call in progress (its locals) or the last one finished
    nCalls,        \* number of insert_rows calls started
    \* ---- Cartographer (src/mg/etl/hermes/base.py, team.py)
    cache,         \* self.cache: data_source_id -> entity, NoEntity when absent
    pending,       \* self._pending: the list of mapping rows waiting for save()
    mapLog,        \* history: the map() calls made, in order, with what each returned
    saveLog,       \* history: the last save() call: the queue before and after it, its result
    \* ---- PubSub rate limiter (src/mg/google_cloud/publish.py)
    clock,         \* time.time(), in seconds
    request_timestamps, \* self.request_timestamps
    worker,        \* per thread: position inside _apply_rate_limiting and its locals
    started,       \* history: per time, the number of publish calls that passed the rate limiter then
    \* ---- PubSub.publish_with_fallback
    fb,            \* the call's locals, the environment of the regions and the per-region record
    \* ---- CloudRunJobRunner.run_job
    job,           \* the call's locals, the environment of the regions and the visit record
    \* ---- ProcessRunner / ProcessingRequestManager
    requests,      \* control.processing_requests: a sequence of rows [id, status, task_type]
    runner,        \* history: the last ProcessRunner call, what it wrote, invoked and raised
    \* ---- PostgresManager.connect_with_retries
    connecting,    \* the connect loop: its attempt, the sleeps made, how it ended
    \* ---- AlertManager.main (src/mg/alerts/alert_manager.py)
    sweep,         \* one sweep: the loaded checks, the loop position, the evaluations made
    \* ---- BaseCheck (src/mg/alerts/alerts.py)
    baseCheck,     \* a check's window settings, the evaluation time and the verdict
    \* ---- LoggerManager.check_alert_log
    alertLog,      \* control.alert_log, the day, the emails sent
    \* ---- ModelManager (src/mg/models/model_manager.py)
    gcs,           \* the bucket's objects and the save_model_to_gcs calls made
    modelDir,      \* the local model directory's files and the save_model calls made
    \* ---- GameCartographer (src/mg/etl/hermes/game.py)
    games,         \* the candidate games, the lookups made and what they returned
    \* ---- LoggerManager.retry
    retrying,      \* the wrapper's loop: its attempt, the calls and sleeps made, how it ended
    \* ---- LoggerManager.log / close_logger (src/mg/logging/logger_manager.py)
    logger,        \* the message lists, the calls made and the process rows written
    \* ---- CronManager.validate_cron_schedule (src/mg/mac/cron_manager.py)
    cron,          \* the schedule given and what validation returned
    \* ---- StaleCheck.check_condition (src/mg/alerts/stale_checks.py)
    stale,         \* the check's settings, the query result and the verdict
    \* ---- ProcessRunner instances polling side by side
    runners,       \* per instance: its position and the request it holds; who picked what
    \* ---- CloudRunJobRunner.run_multiple_jobs
    multi          \* the job's executions on the service and the run_job call of each thread

dbVars     == <<pk, table, txTable, conn, call, nCalls>>
cartoVars  == <<cache, pending, mapLog, saveLog>>
rateVars   == <<clock, request_timestamps, worker, started>>
fbVars     == <<fb>>
jobVars    == <<job>>
runnerVars == <<requests, runner>>
opsVars    == <<connecting, sweep, baseCheck, alertLog, gcs, modelDir, games, retrying>>
baseVars   == <<dbVars, cartoVars, rateVars, fbVars, jobVars, runnerVars>>
auxVars    == <<logger, cron, stale, runners, multi>>
vars == <<baseVars, opsVars, auxVars>>
\* what the PostgresManager and cartographer actions leave alone
notDb == <<rateVars, fbVars, jobVars, runnerVars, opsVars, auxVars>>

\* ------------------------------------------------------------------------
\* Bounds of the model
\* ------------------------------------------------------------------------
MaxVal     == 2   \* column values are 1..MaxVal
MaxBatch   == 2   \* rows per insert_rows call
MaxCalls   == 1   \* insert_rows calls per behaviour (generic table)

\* ------------------------------------------------------------------------
\* Sequence helpers
\* ------------------------------------------------------------------------
Range(s) == {s[i] : i \in 1..Len(s)}

SeqsUpTo(S, n) == UNION {[1..k -> S] : k \in 0..n}

\* list.remove(x): drops the first element equal to x (the model never calls
\* it with an absent element; Python would raise ValueError)
RECURSIVE ListRemove(_, _)
ListRemove(s, x) ==
    IF s = <<>> THEN <<>>
    ELSE IF Head(s) = x THEN Tail(s)
    ELSE <<Head(s)>> \o ListRemove(Tail(s), x)

\* for row in duplicate_rows: rows.remove(row)
RECURSIVE RemoveEach(_, _)
RemoveEach(rows, dups) ==
    IF dups = <<>> THEN rows
    ELSE RemoveEach(ListRemove(rows, Head(dups)), Tail(dups))

\* ------------------------------------------------------------------------
\* PostgresManager: rows, json keys, duplicate filtering
\* ------------------------------------------------------------------------
\* Every column name of the model in alphabetical order: what
\* json.dumps(..., sort_keys=True) sorts by.
ColumnOrder ==
    <<"a", "b", "confidence_rating", "data_source", "data_source_id",
      "entity_id", "log_info">>

\* The generic target table: its columns, the rows a caller may pass, and
\* the primary keys it may have (in ordinal position order; <<>>: no key).
Columns == <<"a", "b">>
Rows == [Range(Columns) -> 1..MaxVal]
PkChoices == {<<>>, <<"a">>, <<"a", "b">>, <<"b", "a">>}

Project(row, cols) == [c \in Range(cols) |-> row[c]]

\* json.dumps of {k: row[k] for k in cols}: the text as the sequence of its
\* "key": value members, in insertion order or, with sort_keys, sorted.
JsonDumps(row, cols, sort_keys) ==
    LET InCols(c) == c \in Range(cols)
        keys == IF sort_keys THEN SelectSeq(ColumnOrder, InCols) ELSE cols
    IN  [i \in 1..Len(keys) |-> <<keys[i], row[keys[i]]>>]

\* check_duplicate_rows: row_key of each row (rows whose filtered_row is
\* empty are skipped) and the keys that occur more than once, in the order
\* of their first occurrence.  duplicates is Len(result) > 0.
check_duplicate_rows(rows, columns) ==
    LET RowKey(row) ==
            LET Present(c) == c \in DOMAIN row
            IN  JsonDumps(row, SelectSeq(columns, Present), TRUE)
        keys == [i \in 1..Len(rows) |-> RowKey(rows[i])]
        Count(k) == Cardinality({i \in 1..Len(rows) : keys[i] = k /\ k # <<>>})
        First(i) == \A j \in 1..(i - 1) : keys[j] # keys[i]
        idx == {i \in 1..Len(rows) : Count(keys[i]) > 1 /\ First(i)}
        RECURSIVE Build(_)
        Build(i) ==
            IF i > Len(rows) THEN <<>>
            ELSE (IF i \in idx THEN <<keys[i]>> ELSE <<>>) \o Build(i + 1)
    IN  Build(1)

\* insert_rows, the loop after a positive duplicate check: for every flagged
\* key every row whose json.dumps (no sort_keys, no value conversion) equals
\* the key is collected, and each collected row is removed from rows.
DuplicateRows(rows, columns, flagged) ==
    LET Matches(key) ==
            LET Hit(row) == JsonDumps(row, columns, FALSE) = key
            IN  SelectSeq(rows, Hit)
        RECURSIVE Collect(_)
        Collect(k) ==
            IF k > Len(flagged) THEN <<>>
            ELSE Matches(flagged[k]) \o Collect(k + 1)
    IN  Collect(1)

FilterDuplicates(rows, columns) ==
    LET flagged == check_duplicate_rows(rows, columns)
    IN  IF Len(flagged) > 0
        THEN RemoveEach(rows, DuplicateRows(rows, columns, flagged))
        ELSE rows

\* The two filtering passes of insert_rows: by the columns argument, then by
\* the table's primary key (columns = [] when the table has none).
PreFilter(rows, columns, pkcols) ==
    FilterDuplicates(FilterDuplicates(rows, columns), pkcols)

\* ------------------------------------------------------------------------
\* PostgresManager: the connection and insert_rows, step by step
\* ------------------------------------------------------------------------
\* psycopg2.connect(): a new connection is open, idle and NOT autocommit
\* (the driver's default); __init__ then sets autocommit=True once.
NewConnection == [closed |-> FALSE, autocommit |-> FALSE, status |-> "idle"]
InitConnection == [NewConnection EXCEPT !.autocommit = TRUE]

_has_valid_connection(c) == ~c.closed

\* _ensure_clean_transaction_state on connection c with transaction view v
\* and committed rows t: a failed transaction is rolled back, an open one is
\* committed.  Result: <<connection, committed rows>>.
EnsureClean(c, v, t) ==
    IF ~_has_valid_connection(c) THEN <<c, t>>
    ELSE IF c.status = "inerror" THEN <<[c EXCEPT !.status = "idle"], t>>
    ELSE IF c.status # "idle" THEN <<[c EXCEPT !.status = "idle"], v>>
    ELSE <<c, t>>

\* A mutant of SetAutocommit: the new value is not applied.
SetAutocommitIgnored(c, value) == c

\* self.connection.autocommit = value
SetAutocommit(c, value) == [c EXCEPT !.autocommit = value]

NoCall ==
    [pc |-> "idle", owner |-> "caller", columns |-> <<>>, rows |-> <<>>,
     rows0 |-> <<>>, kept |-> <<>>, prepared |-> <<>>, idx |-> 1,
     update |-> FALSE, hasOld |-> FALSE, old |-> FALSE, error |-> "none",
     result |-> "none", before |-> {}, autocommit0 |-> FALSE]

\* What a statement can raise besides a unique violation, which the table
\* decides: a data error (out of range, too long), a foreign-key violation,
\* or the loss of the connection.
EnvErrors == {"DataError", "ForeignKeyViolation", "OperationalError"}
ConnectionErrors == {"OperationalError", "InterfaceError"}

\* insert_rows is entered: old_autocommit = self._get_and_set_autocommit(False)
\* (a closed connection is reopened first; if that fails the value is None
\* and the connection stays as it is).
BeginInsert(owner, columns, rows, update) ==
    /\ call.pc \in {"idle", "done"}
    /\ \E reconnects \in BOOLEAN :
        LET c0 == IF _has_valid_connection(conn) THEN conn
                  ELSE IF reconnects THEN NewConnection ELSE conn
            v0 == IF _has_valid_connection(conn) THEN txTable ELSE table
            clean == EnsureClean(c0, v0, table)
            ok == _has_valid_connection(c0)
        IN  /\ (_has_valid_connection(conn) => reconnects)
            /\ conn' = IF ok THEN SetAutocommit(clean[1], FALSE) ELSE conn
            /\ table' = clean[2]
            /\ txTable' = clean[2]
            /\ call' = [NoCall EXCEPT !.pc = "with", !.owner = owner,
                            !.columns = columns, !.rows = rows, !.rows0 = rows,
                            !.update = update, !.hasOld = ok,
                            !.old = (ok /\ clean[1].autocommit),
                            !.before = clean[2],
                            !.autocommit0 = conn.autocommit]
    /\ nCalls' = nCalls + 1
    /\ UNCHANGED pk

\* Between calls the server drops the idle connection: connection.closed
\* becomes nonzero, the object keeps its other attributes.
ConnectionLost ==
    /\ call.pc = "idle"
    /\ _has_valid_connection(conn)
    /\ conn' = [conn EXCEPT !.closed = TRUE]
    /\ UNCHANGED <<pk, table, txTable, call, nCalls, cartoVars, notDb>>

\* The caller of the generic table passes any batch of rows.
StartInsert ==
    /\ nCalls < MaxCalls
    /\ \E rows \in SeqsUpTo(Rows, MaxBatch), update \in BOOLEAN :
        BeginInsert("caller", Columns, rows, update)
    /\ UNCHANGED <<cartoVars, notDb>>

\* `with self.connection:` is entered (a closed connection raises
\* InterfaceError), the two duplicate filters run on the caller's list, the
\* primary key is read and the rows are prepared; an upsert on a table
\* without primary key returns False from inside the block.
InsertPrepare ==
    /\ call.pc = "with"
    /\ IF conn.closed
       THEN /\ call' = [call EXCEPT !.pc = "except", !.error = "InterfaceError"]
            /\ UNCHANGED pending
       ELSE LET kept == PreFilter(call.rows, call.columns, pk)
            IN  /\ call' = [call EXCEPT
                        !.rows = kept, !.kept = kept,
                        !.prepared = IF call.update /\ pk = <<>> THEN <<>> ELSE kept,
                        !.result = IF call.update /\ pk = <<>> THEN "False" ELSE "none",
                        !.pc = "exec"]
                /\ pending' = IF call.owner = "save" THEN kept ELSE pending
    /\ UNCHANGED <<pk, table, txTable, conn, nCalls, cache, mapLog, saveLog, notDb>>

\* The INSERT of one row against the rows `view`: ON CONFLICT DO UPDATE
\* replaces the row with the same primary key (DO NOTHING when every column
\* is a key column); without a primary key the row is added.
Conflicts(row, view) ==
    {r \in view : pk # <<>> /\ Project(r, pk) = Project(row, pk)}

Upsert(row, view) ==
    IF Range(call.columns) \subseteq Range(pk) /\ Conflicts(row, view) # {}
    THEN view
    ELSE (view \ Conflicts(row, view)) \cup {row}

\* cursor.execute / executemany: the next prepared row is sent.  Under
\* autocommit the statement is committed at once; otherwise it joins the
\* connection's transaction.
InsertExecRow ==
    /\ call.pc = "exec"
    /\ call.idx <= Len(call.prepared)
    /\ LET row == call.prepared[call.idx]
           view == IF conn.autocommit THEN table ELSE txTable
           unique == ~call.update /\ Conflicts(row, view) # {}
       IN  \E env \in EnvErrors \cup {"ok"} :
            LET err == IF env # "ok" THEN env
                       ELSE IF unique THEN "UniqueViolation" ELSE "ok"
            IN  IF err = "ok"
                THEN /\ call' = [call EXCEPT !.idx = @ + 1]
                     /\ IF conn.autocommit
                        THEN /\ table' = Upsert(row, table)
                             /\ txTable' = Upsert(row, table)
                             /\ conn' = conn
                        ELSE /\ txTable' = Upsert(row, txTable)
                             /\ table' = table
                             /\ conn' = [conn EXCEPT !.status = "intrans"]
                ELSE /\ call' = [call EXCEPT !.pc = "except", !.error = err]
                     /\ conn' = [conn EXCEPT
                            !.status = IF conn.autocommit THEN "idle" ELSE "inerror",
                            !.closed = (err = "OperationalError")]
                     /\ UNCHANGED <<table, txTable>>
    /\ UNCHANGED <<pk, nCalls, cartoVars, notDb>>

\* The with block is left normally: the transaction is committed (the
\* commit itself can find the connection gone).
InsertCommit ==
    /\ call.pc = "exec"
    /\ call.idx > Len(call.prepared)
    /\ \E lost \in BOOLEAN :
        IF lost
        THEN /\ call' = [call EXCEPT !.pc = "except", !.error = "OperationalError"]
             /\ conn' = [conn EXCEPT !.closed = TRUE, !.status = "inerror"]
             /\ UNCHANGED <<table, txTable>>
        ELSE /\ call' = [call EXCEPT !.pc = "finally",
                            !.result = IF @ = "none" THEN "True" ELSE @]
             /\ conn' = [conn EXCEPT !.status = "idle"]
             /\ table' = txTable
             /\ txTable' = txTable
    /\ UNCHANGED <<pk, nCalls, cartoVars, notDb>>

\* The with block is left by an exception: the transaction is rolled back
\* and the matching except clause runs.  The clauses for OperationalError
\* and InterfaceError call connect_with_retries, which replaces the
\* connection or raises ConnectionError out of insert_rows.
InsertExcept ==
    /\ call.pc = "except"
    /\ txTable' = table
    /\ IF call.error \in ConnectionErrors
       THEN \E reconnects \in BOOLEAN :
            /\ conn' = IF reconnects THEN NewConnection
                       ELSE [conn EXCEPT !.closed = TRUE, !.status = "idle"]
            /\ call' = [call EXCEPT !.pc = "finally",
                            !.result = IF reconnects THEN "False" ELSE "raised"]
       ELSE /\ conn' = [conn EXCEPT !.status = "idle"]
            /\ call' = [call EXCEPT !.pc = "finally", !.result = "False"]
    /\ UNCHANGED <<pk, table, nCalls, cartoVars, notDb>>

\* finally: _set_autocommit_safely(old_autocommit) when it is not None.
InsertFinally ==
    /\ call.pc = "finally"
    /\ LET clean == EnsureClean(conn, txTable, table)
       IN  IF call.hasOld /\ _has_valid_connection(conn)
           THEN /\ conn' = SetAutocommit(clean[1], call.old)
                /\ table' = clean[2]
                /\ txTable' = clean[2]
           ELSE UNCHANGED <<conn, table, txTable>>
    /\ call' = [call EXCEPT !.pc = "done"]
    /\ UNCHANGED <<pk, nCalls, cartoVars, notDb>>

\* execute(q) with q an INSERT of one row, called between insert_rows calls:
\* _ensure_clean_transaction_state, then get_cursor, which replaces a dead
\* connection through connect_with_retries (a failure there raises
\* ConnectionError out of execute), then cursor.execute, whose exception is
\* caught.  No commit follows: the statement is committed by the server only
\* when the connection is in autocommit mode.
execute ==
    /\ call.pc \in {"idle", "done"}
    /\ \E row \in Rows, reconnects \in BOOLEAN :
        LET clean == EnsureClean(conn, txTable, table)
            dead == ~_has_valid_connection(clean[1])
            c == IF dead THEN NewConnection ELSE clean[1]
            unique == Conflicts(row, clean[2]) # {}
        IN  /\ (~dead => reconnects)
            /\ IF ~reconnects
               THEN /\ conn' = clean[1]
                    /\ table' = clean[2]
                    /\ txTable' = clean[2]
               ELSE IF unique
               THEN /\ conn' = [c EXCEPT
                            !.status = IF c.autocommit THEN "idle" ELSE "inerror"]
                    /\ table' = clean[2]
                    /\ txTable' = clean[2]
               ELSE IF c.autocommit
               THEN /\ conn' = c
                    /\ table' = clean[2] \cup {row}
                    /\ txTable' = clean[2] \cup {row}
               ELSE /\ conn' = [c EXCEPT !.status = "intrans"]
                    /\ table' = clean[2]
                    /\ txTable' = clean[2] \cup {row}
    /\ UNCHANGED <<pk, call, nCalls, cartoVars, notDb>>

\* ------------------------------------------------------------------------
\* TeamCartographer: the candidate pool and the lexis functions on the names
\* of the model
\* ------------------------------------------------------------------------
MaxMapCalls == 2   \* map() calls per behaviour
MaxSaves    == 2   \* save() calls that reach insert_rows per behaviour

NoEntity == [id |-> "None"]
NoName == ""       \* name=None

TeamBears ==
    [id |-> "t0", team |-> "Chicago Bears", alternate_names |-> {},
     abbreviation |-> "CHI", location |-> "Chicago", mascot |-> "Bears"]
TeamDallas ==
    [id |-> "t1", team |-> "Dallas Cowboys", alternate_names |-> {"America's Team"},
     abbreviation |-> "DAL", location |-> "Dallas", mascot |-> "Cowboys"]
TeamGiants ==
    [id |-> "t2", team |-> "New York Giants", alternate_names |-> {},
     abbreviation |-> "NYG", location |-> "New York", mascot |-> "Giants"]

\* self.entities after _load_entities and the sort of _build_indices: the
\* teams not yet mapped for this data source, ordered by name.
entities == <<TeamBears, TeamDallas, TeamGiants>>

\* The identifiers and names callers pass to map().
DataSourceIds == {"", "x", "X", "y"}
InputNames ==
    {NoName, "Dallas Cowboys", "America's Team", "dal", "Dallas", "Cowboys",
     "Cowboys Dallas Football", "Dalas Cowboys", "Giants", "Unknown",
     "Chicago Bers"}

\* str.lower() on the identifiers of the model
Lower(id) == IF id = "X" THEN "x" ELSE id

\* lexis.strip_convert_to_lowercase on the strings of the model: accents and
\* suffixes stripped, every non-alphanumeric character dropped, lower case.
strip_convert_to_lowercase(string) ==
    CASE string = "Dallas Cowboys"          -> "dallascowboys"
      [] string = "Chicago Bears"           -> "chicagobears"
      [] string = "Chicago Bers"            -> "chicagobers"
      [] string = "CHI"                     -> "chi"
      [] string = "Chicago"                 -> "chicago"
      [] string = "Bears"                   -> "bears"
      [] string = "New York Giants"         -> "newyorkgiants"
      [] string = "America's Team"          -> "americasteam"
      [] string \in {"DAL", "dal"}          -> "dal"
      [] string = "NYG"                     -> "nyg"
      [] string = "Dallas"                  -> "dallas"
      [] string = "New York"                -> "newyork"
      [] string = "Cowboys"                 -> "cowboys"
      [] string = "Giants"                  -> "giants"
      [] string = "Cowboys Dallas Football" -> "cowboysdallasfootball"
      [] string = "Dalas Cowboys"           -> "dalascowboys"
      [] string = "Unknown"                 -> "unknown"
      [] OTHER                              -> string

\* set(name.lower().split())
Tokens(name) ==
    CASE name = "Dallas Cowboys"          -> {"dallas", "cowboys"}
      [] name = "Chicago Bears"           -> {"chicago", "bears"}
      [] name = "Chicago Bers"            -> {"chicago", "bers"}
      [] name = "New York Giants"         -> {"new", "york", "giants"}
      [] name = "America's Team"          -> {"america's", "team"}
      [] name = "Cowboys Dallas Football" -> {"cowboys", "dallas", "football"}
      [] name = "Dalas Cowboys"           -> {"dalas", "cowboys"}
      [] name = "dal"                     -> {"dal"}
      [] name = "Dallas"                  -> {"dallas"}
      [] name = "Cowboys"                 -> {"cowboys"}
      [] name = "Giants"                  -> {"giants"}
      [] name = "Unknown"                 -> {"unknown"}
      [] OTHER                            -> {}

\* lexis.name_similarity in thousandths (0.5 Levenshtein + 0.3 Jaccard on
\* characters + 0.2 cosine on words, of the two normalized names), for the
\* input names that reach the fuzzy step.
name_similarity(name1, name2) ==
    CASE name1 = name2                                             -> 1000
      [] name1 = "Dalas Cowboys" /\ name2 = "Dallas Cowboys"       -> 761
      [] name1 = "Dalas Cowboys" /\ name2 = "New York Giants"      -> 132
      [] name1 = "Dalas Cowboys" /\ name2 = "Chicago Bears"        -> 190
      [] name1 = "Chicago Bers" /\ name2 = "Chicago Bears"         -> 758
      [] name1 = "Chicago Bers" /\ name2 = "Dallas Cowboys"        -> 261
      [] name1 = "Chicago Bers" /\ name2 = "New York Giants"       -> 216
      [] name1 = "Unknown" /\ name2 = "Chicago Bears"              -> 63
      [] name1 = "Unknown" /\ name2 = "Dallas Cowboys"             -> 126
      [] name1 = "Unknown" /\ name2 = "New York Giants"            -> 169
      [] OTHER                                                     -> 0

\* The similarity_threshold argument the cartographer of the model is built
\* with, in thousandths (a constructor parameter; 0.75 lets the misspelt
\* name of the model reach a fuzzy match).
similarity_threshold == 750

\* The lookup indices of _build_indices: the last team of the pool with the
\* normalized key wins; NoEntity when the key is absent.
IndexGet(index, normalized) ==
    LET hits == {i \in 1..Len(entities) : normalized \in index[i]}
    IN  IF hits = {} THEN NoEntity
        ELSE entities[CHOOSE i \in hits : \A j \in hits : j <= i]

ByNormalizedName ==
    [i \in DOMAIN entities |-> {strip_convert_to_lowercase(entities[i].team)}]
ByAlternateName ==
    [i \in DOMAIN entities |-> {strip_convert_to_lowercase(a) : a \in entities[i].alternate_names}]
ByAbbreviation ==
    [i \in DOMAIN entities |-> {strip_convert_to_lowercase(entities[i].abbreviation)}]
ByLocation ==
    [i \in DOMAIN entities |-> {strip_convert_to_lowercase(entities[i].location)}]
ByMascot ==
    [i \in DOMAIN entities |-> {strip_convert_to_lowercase(entities[i].mascot)}]

\* _match_by_tokens: the first team with the largest overlap of at least two
\* tokens; an input of fewer than two tokens matches nothing.
_match_by_tokens(input_name) ==
    LET Overlap(i) == Cardinality(Tokens(input_name) \cap Tokens(entities[i].team))
        good == {i \in 1..Len(entities) : Overlap(i) >= 2}
        best == {i \in good : \A j \in good : Overlap(j) <= Overlap(i)}
    IN  IF Cardinality(Tokens(input_name)) < 2 \/ good = {} THEN NoEntity
        ELSE entities[CHOOSE i \in best : \A j \in best : i <= j]

\* _match_by_similarity: the first team with the highest similarity at or
\* above the threshold, with that similarity.
_match_by_similarity(input_name) ==
    LET Sim(i) == name_similarity(input_name, entities[i].team)
        good == {i \in 1..Len(entities) : Sim(i) > 0 /\ Sim(i) >= similarity_threshold}
        best == {i \in good : \A j \in good : Sim(j) <= Sim(i)}
        pick == CHOOSE i \in best : \A j \in best : i <= j
    IN  IF good = {} THEN <<NoEntity, 0>> ELSE <<entities[pick], Sim(pick)>>

\* The heuristic cascade of TeamCartographer.map after a cache miss (the
\* team_mapping of the model is empty, so _normalize_team changes nothing):
\* the matched team, the confidence rating and the method; NoEntity when no
\* step matches or no name is given.
Heuristic(name) ==
    LET normalized == strip_convert_to_lowercase(name)
        Try(e, c, m) == [entity |-> e, confidence |-> c, method |-> m]
        fuzzy == _match_by_similarity(name)
    IN  IF name = NoName THEN Try(NoEntity, 0, "no_name")
        ELSE IF IndexGet(ByNormalizedName, normalized) # NoEntity
        THEN Try(IndexGet(ByNormalizedName, normalized), 100, "exact_name")
        ELSE IF IndexGet(ByAlternateName, normalized) # NoEntity
        THEN Try(IndexGet(ByAlternateName, normalized), 98, "alternate_name")
        ELSE IF IndexGet(ByAbbreviation, normalized) # NoEntity
        THEN Try(IndexGet(ByAbbreviation, normalized), 95, "abbreviation")
        ELSE IF IndexGet(ByLocation, normalized) # NoEntity
        THEN Try(IndexGet(ByLocation, normalized), 90, "location")
        ELSE IF IndexGet(ByMascot, normalized) # NoEntity
        THEN Try(IndexGet(ByMascot, normalized), 85, "mascot")
        ELSE IF _match_by_tokens(name) # NoEntity
        THEN Try(_match_by_tokens(name), 80, "token_overlap")
        ELSE IF fuzzy[1] # NoEntity
        THEN Try(fuzzy[1], fuzzy[2] \div 10, "fuzzy")
        ELSE Try(NoEntity, 0, "none")

\* ------------------------------------------------------------------------
\* Cartographer: cache, pending queue, map() and save()
\* ------------------------------------------------------------------------
DataSource == "src"
MapColumns ==
    <<"data_source", "data_source_id", "entity_id", "confidence_rating", "log_info">>
\* primary_keys of the source-map table (Cartographer.save, create_table)
MapPk == <<"data_source", "data_source_id">>

CacheKeys == {Lower(id) : id \in DataSourceIds}

\* _lookup_cached: cache.get(key) with the key lower-cased
\* (normalize_cache_keys is True for TeamCartographer)
_lookup_cached(data_source_id) == cache[Lower(data_source_id)]

\* The row _add_mapping appends to self._pending
MappingRow(data_source_id, entity, confidence_rating, method, name) ==
    [data_source |-> DataSource, data_source_id |-> data_source_id,
     entity_id |-> entity.id, confidence_rating |-> confidence_rating,
     log_info |-> <<method, name>>]

\* A mutant of CacheHit: the cache is never consulted.
CacheHitNever(data_source_id) == FALSE

\* TeamCartographer.map, the cache check: only a non-empty identifier is
\* looked up, and only a non-empty cached entity counts.
CacheHit(data_source_id) ==
    data_source_id # "" /\ _lookup_cached(data_source_id) # NoEntity

\* TeamCartographer.map(data_source_id, name)
Map ==
    /\ saveLog.state # "running"
    /\ Len(mapLog) < MaxMapCalls
    /\ \E raw \in DataSourceIds, name \in InputNames :
        LET data_source_id == Lower(raw)
            m == Heuristic(name)
        IN  IF CacheHit(data_source_id)
            THEN /\ mapLog' = Append(mapLog,
                        [id |-> data_source_id, name |-> name,
                         ret |-> _lookup_cached(data_source_id),
                         heuristic |-> FALSE, queued |-> FALSE])
                 /\ UNCHANGED <<cache, pending>>
            ELSE IF m.entity = NoEntity
            THEN /\ mapLog' = Append(mapLog,
                        [id |-> data_source_id, name |-> name, ret |-> NoEntity,
                         heuristic |-> (name # NoName), queued |-> FALSE])
                 /\ UNCHANGED <<cache, pending>>
            ELSE /\ cache' = [cache EXCEPT ![data_source_id] = m.entity]
                 /\ pending' = Append(pending,
                        MappingRow(data_source_id, m.entity, m.confidence,
                                   m.method, name))
                 /\ mapLog' = Append(mapLog,
                        [id |-> data_source_id, name |-> name, ret |-> m.entity,
                         heuristic |-> TRUE, queued |-> TRUE])
    /\ UNCHANGED <<dbVars, saveLog, notDb>>

\* Cartographer.save with an empty queue: returns True at once.
SaveEmpty ==
    /\ saveLog.state # "running"
    /\ pending = <<>>
    /\ saveLog.before # <<>> \/ saveLog.state = "none"
    /\ saveLog' = [state |-> "done", before |-> <<>>, after |-> <<>>,
                    result |-> "True"]
    /\ UNCHANGED <<dbVars, cache, pending, mapLog, notDb>>

\* Cartographer.save: the queue itself is handed to insert_rows (the
\* source-map table exists, so create_table is skipped).
SaveStart ==
    /\ saveLog.state # "running"
    /\ pending # <<>>
    /\ nCalls < MaxSaves
    /\ BeginInsert("save", MapColumns, pending, TRUE)
    /\ saveLog' = [state |-> "running", before |-> pending, after |-> <<>>,
                    result |-> "none"]
    /\ UNCHANGED <<cache, pending, mapLog, notDb>>

\* Cartographer.save, `if result:`
ClearOnResult(result) == result = "True"

\* Cartographer.save after insert_rows has returned (or raised).
SaveReturn ==
    /\ saveLog.state = "running"
    /\ call.pc = "done"
    /\ pending' = IF call.result # "raised" /\ ClearOnResult(call.result)
                  THEN <<>> ELSE pending
    /\ saveLog' = [saveLog EXCEPT !.state = "done", !.result = call.result,
                                   !.after = pending']
    /\ UNCHANGED <<dbVars, cache, mapLog, notDb>>

\* ------------------------------------------------------------------------
\* PubSub._apply_rate_limiting, run by the threads of the publishing pool
\* ------------------------------------------------------------------------
max_requests_per_min == 40
WindowSeconds == 60
NumWorkers   == 2    \* threads publishing through one PubSub instance
MaxPublishes == 41   \* publish calls per behaviour
TickSeconds  == 60   \* the clock advances in steps of this many seconds
MaxClock     == 60   \* and stops here

Workers == 1..NumWorkers
Times == {t \in 0..MaxClock : t % TickSeconds = 0}

RECURSIVE SumOver(_, _)
SumOver(f, S) ==
    IF S = {} THEN 0
    ELSE LET t == CHOOSE u \in S : TRUE IN f[t] + SumOver(f, S \ {t})
IdleWorker == [pc |-> "idle", now |-> 0, snap |-> <<>>, wake |-> 0]
notRate == <<dbVars, cartoVars, fbVars, jobVars, runnerVars, opsVars, auxVars>>

\* [t for t in self.request_timestamps if t > window_start]
Recent(timestamps, now) ==
    LET InWindow(t) == t > now - WindowSeconds
    IN  SelectSeq(timestamps, InWindow)

\* publish() calls _apply_rate_limiting: now = time.time(), and the list
\* comprehension reads the shared list ...
RateEnter(w) ==
    /\ worker[w].pc = "idle"
    /\ SumOver(started, Times)
         + Cardinality({v \in Workers : worker[v].pc # "idle"}) < MaxPublishes
    /\ worker' = [worker EXCEPT ![w] = [IdleWorker EXCEPT
                        !.pc = "store", !.now = clock,
                        !.snap = Recent(request_timestamps, clock)]]
    /\ UNCHANGED <<clock, request_timestamps, started, notRate>>

\* ... and its result is stored back into self.request_timestamps.
RateStore(w) ==
    /\ worker[w].pc = "store"
    /\ request_timestamps' = worker[w].snap
    /\ worker' = [worker EXCEPT ![w].pc = "check", ![w].snap = <<>>]
    /\ UNCHANGED <<clock, started, notRate>>

\* len(self.request_timestamps) >= self.max_requests_per_min
AtLimit(timestamps) == Len(timestamps) >= max_requests_per_min

\* At the limit the thread sleeps 60 - (now - oldest) seconds when that is
\* positive; otherwise it goes on to append.
RateCheck(w) ==
    /\ worker[w].pc = "check"
    /\ LET wait_time ==
            IF AtLimit(request_timestamps)
            THEN WindowSeconds - (worker[w].now - request_timestamps[1])
            ELSE 0
       IN  worker' = [worker EXCEPT
                ![w].pc = IF wait_time > 0 THEN "sleep" ELSE "append",
                ![w].wake = IF wait_time > 0 THEN clock + wait_time ELSE 0]
    /\ UNCHANGED <<clock, request_timestamps, started, notRate>>

\* time.sleep(wait_time) returns
RateWake(w) ==
    /\ worker[w].pc = "sleep"
    /\ clock >= worker[w].wake
    /\ worker' = [worker EXCEPT ![w].pc = "append", ![w].wake = 0]
    /\ UNCHANGED <<clock, request_timestamps, started, notRate>>

\* self.request_timestamps.append(time.time()); the publish call starts.
RateAppend(w) ==
    /\ worker[w].pc = "append"
    /\ request_timestamps' = Append(request_timestamps, clock)
    /\ started' = [started EXCEPT ![clock] = @ + 1]
    /\ worker' = [worker EXCEPT ![w] = IdleWorker]
    /\ UNCHANGED <<clock, notRate>>

Tick ==
    /\ clock + TickSeconds <= MaxClock
    /\ clock' = clock + TickSeconds
    /\ UNCHANGED <<request_timestamps, worker, started, notRate>>

\* ------------------------------------------------------------------------
\* PubSub.publish_with_fallback
\* ------------------------------------------------------------------------
region_rankings == <<"us-central1", "us-east4", "us-east1", "us-west1", "us-west2">>
max_retries == 5
NumRegions == 3      \* the leading regions of region_rankings that are modelled
MaxFbCalls == 1      \* publish_with_fallback calls per behaviour

RegionIdx == 1..NumRegions
\* What the service answers through a region's client: the topic is there,
\* is absent and can be created, or is absent and creation fails.
TopicStates == {"has", "creatable", "absent"}
\* How the service answers publish attempts through a region's client:
\* accepts, fails with a quota error, fails with "no available instance",
\* or fails with a quota error on some attempts and accepts another.
PublishModes == {"accept", "quota", "noinstance", "flaky"}
notFb == <<dbVars, cartoVars, clock, worker, started, jobVars, runnerVars, opsVars, auxVars>>
NoResult == [id |-> "None", region |-> "None"]

\* topic_exists: the cache, else get_topic
topic_exists(f, i) == i \in f.topic_cache \/ f.topic[i] = "has"

\* create_topic: True when the topic exists or publisher.create_topic succeeds
create_topic(f, i) == topic_exists(f, i) \/ f.topic[i] = "creatable"

\* A mutant of copy_topic_to_region: the copy never succeeds.
CopyNever(f, source, target) == FALSE

\* copy_topic_to_region
copy_topic_to_region(f, source, target) ==
    topic_exists(f, source) /\ create_topic(f, target)

\* The loop of publish_with_fallback moves to the next region, or returns
\* (None, None) after the last one.
FbContinue(f, entry) ==
    LET g == [f EXCEPT !.log = Append(@, entry), !.retry_count = 0]
    IN  IF f.idx = NumRegions
        THEN [g EXCEPT !.pc = "done", !.result = NoResult]
        ELSE [g EXCEPT !.pc = "region", !.idx = @ + 1]

FbCall ==
    /\ fb.pc \in {"idle", "done"}
    /\ fb.calls < MaxFbCalls
    /\ \E auto \in BOOLEAN :
        fb' = [fb EXCEPT !.pc = "region", !.idx = 1, !.auto_create_topic = auto,
                         !.source_region = 0, !.log = <<>>, !.retry_count = 0,
                         !.result = NoResult, !.calls = @ + 1]
    /\ UNCHANGED <<request_timestamps, notFb>>

\* One iteration of the region loop up to the first publish attempt: the
\* topic check, creation or copy, and the start of publish() (its own topic
\* check and the rate limiter).
FbRegion ==
    /\ fb.pc = "region"
    /\ LET i == fb.idx
           exists == topic_exists(fb, i)
           create == ~exists /\ i = 1 /\ fb.auto_create_topic
           copy == ~exists /\ i # 1 /\ fb.auto_create_topic /\ fb.source_region # 0
           made == \/ create /\ create_topic(fb, i)
                   \/ copy /\ copy_topic_to_region(fb, fb.source_region, i)
           skip == \/ (create \/ copy) /\ ~made
                   \/ ~exists /\ ~fb.auto_create_topic
           f1 == [fb EXCEPT
                    !.topic_cache = IF exists \/ made THEN @ \cup {i} ELSE @,
                    !.topic[i] = IF made THEN "has" ELSE @,
                    !.source_region =
                        IF (exists /\ @ = 0) \/ (create /\ made) THEN i ELSE @]
       IN  IF skip
           THEN /\ fb' = FbContinue(f1, [region |-> i, outcome |-> "skipped", errors |-> {}])
                /\ UNCHANGED request_timestamps
           ELSE IF ~topic_exists(f1, i)
           THEN /\ fb' = FbContinue(f1, [region |-> i, outcome |-> "no topic", errors |-> {}])
                /\ UNCHANGED request_timestamps
           ELSE /\ fb' = [f1 EXCEPT !.pc = "attempt", !.retry_count = 0, !.errors = {}]
                /\ request_timestamps' = Append(Recent(request_timestamps, clock), clock)
    /\ UNCHANGED notFb

\* One pass of the retry loop of publish(): an attempt that succeeds returns
\* the message id; a failed one is retried while retry_count <= max_retries.
FbAttempt ==
    /\ fb.pc = "attempt"
    /\ LET i == fb.idx
           outcomes == CASE fb.mode[i] = "accept" -> {"accept"}
                         [] fb.mode[i] = "quota" -> {"quota"}
                         [] fb.mode[i] = "noinstance" -> {"noinstance"}
                         [] OTHER -> {"accept", "quota"}
       IN  \E o \in outcomes :
             IF o = "accept"
             THEN fb' = [fb EXCEPT
                    !.pc = "done",
                    !.result = [id |-> "message_id", region |-> region_rankings[i]],
                    !.log = Append(@, [region |-> i, outcome |-> "published",
                                       errors |-> fb.errors])]
             ELSE LET retry_count == fb.retry_count + 1
                      errors == fb.errors \cup {o}
                      again == o = "noinstance" \/ retry_count <= max_retries
                  IN  IF again /\ retry_count <= max_retries
                      THEN fb' = [fb EXCEPT !.retry_count = retry_count,
                                            !.errors = errors]
                      ELSE fb' = FbContinue([fb EXCEPT !.errors = {}],
                                   [region |-> i, outcome |-> "failed", errors |-> errors])
    /\ UNCHANGED <<request_timestamps, notFb>>

\* ------------------------------------------------------------------------
\* CloudRunJobRunner.run_job (its region_rankings is the list of PubSub)
\* ------------------------------------------------------------------------
MaxJobCalls == 1     \* run_job calls per behaviour
MaxPolls    == 3     \* status polls of one execution before it must have ended

notJobs == <<dbVars, cartoVars, rateVars, fbVars, runnerVars, opsVars, auxVars>>
NoStatus == [status |-> "None", region |-> "None"]
\* What the service answers about the job in a region: it is there, it is
\* absent and copy_job_to_region succeeds, or absent and the copy fails.
JobStates == {"has", "creatable", "absent"}
\* What client.run_job does: the launch succeeds, raises ResourceExhausted,
\* NotFound, a GoogleAPICallError that mentions the quota, another
\* GoogleAPICallError, the operation ends at once with an exception, or an
\* exception that is no GoogleAPICallError is raised.
LaunchOutcomes ==
    {"ok", "ResourceExhausted", "NotFound", "QuotaExceeded", "GoogleAPICallError",
     "operation.exception", "Exception"}
\* The states an execution passes through on the service
ExecutionEnded == {"SUCCEEDED", "FAILED", "CANCELLED", "TIMEOUT"}
ExecutionStates == {"pending", "running"} \cup ExecutionEnded
ExecutionNext(e) ==
    CASE e = "pending" -> ExecutionStates
      [] e = "running" -> ExecutionStates \ {"pending"}
      [] OTHER -> {e}

\* The state of the Completed condition the service reports (Condition.State
\* has no value for a cancelled or timed-out execution: its Completed
\* condition is failed, with the cause in the condition's reason).
CompletedCondition(e) ==
    CASE e = "SUCCEEDED" -> "CONDITION_SUCCEEDED"
      [] e \in {"FAILED", "CANCELLED", "TIMEOUT"} -> "CONDITION_FAILED"
      [] e = "running" -> "CONDITION_RECONCILING"
      [] OTHER -> "CONDITION_PENDING"
StartedCondition(e) ==
    IF e = "pending" THEN "CONDITION_PENDING" ELSE "CONDITION_SUCCEEDED"

\* _get_latest_execution_status on an execution in state e
_get_latest_execution_status(e) ==
    LET completed == CompletedCondition(e)
        status == CASE completed = "CONDITION_SUCCEEDED" -> "SUCCEEDED"
                    [] completed = "CONDITION_FAILED" -> "FAILED"
                    [] completed = "CONDITION_RECONCILING" -> "RUNNING"
                    [] OTHER -> "UNKNOWN"
    IN  IF status = "UNKNOWN" /\ StartedCondition(e) = "CONDITION_SUCCEEDED"
        THEN "RUNNING"
        ELSE status

terminal_states == {"SUCCEEDED", "FAILED", "CANCELLED", "TIMEOUT"}

\* A mutant of Caught: only ResourceExhausted is handled.
CaughtQuotaOnly(e) == e = "ResourceExhausted"

\* The except clauses of run_job: ResourceExhausted, NotFound and every other
\* GoogleAPICallError end the iteration with continue.
Caught(e) ==
    e \in {"ResourceExhausted", "NotFound", "QuotaExceeded", "GoogleAPICallError"}

\* continue: the next region, or (None, None) after the last one
JobContinue(j, outcome) ==
    LET g == [j EXCEPT !.log = Append(@, [region |-> j.idx, outcome |-> outcome]),
                       !.polls = 0, !.execution = "none"]
    IN  IF j.idx = NumRegions
        THEN [g EXCEPT !.pc = "done", !.result = NoStatus]
        ELSE [g EXCEPT !.pc = "region", !.idx = @ + 1]

\* An exception e raised inside the try block of run_job
JobRaise(j, e) ==
    IF Caught(e)
    THEN JobContinue(j, e)
    ELSE [j EXCEPT !.pc = "done", !.raised = e,
                   !.log = Append(@, [region |-> j.idx, outcome |-> e])]

JobReturn(j, status) ==
    [j EXCEPT !.pc = "done",
              !.result = [status |-> status, region |-> region_rankings[j.idx]],
              !.log = Append(@, [region |-> j.idx, outcome |-> "returned"])]

RunJob ==
    /\ job.pc \in {"idle", "done"}
    /\ job.calls < MaxJobCalls
    /\ \E monitor \in BOOLEAN, auto \in BOOLEAN :
        job' = [job EXCEPT !.pc = "region", !.idx = 1, !.monitor = monitor,
                           !.auto_create_job = auto, !.source_region = 0,
                           !.log = <<>>, !.polls = 0, !.execution = "none",
                           !.ended = "None", !.pollsAfterEnd = 0,
                           !.result = NoStatus, !.raised = "None", !.calls = @ + 1]
    /\ UNCHANGED notJobs

\* One iteration of the region loop up to the launch: job_exists, and the
\* copy from the source region where one is called for.
JobRegion ==
    /\ job.pc = "region"
    /\ LET i == job.idx
           exists == job.jobs[i] = "has"
           copy == ~exists /\ i # 1 /\ job.auto_create_job /\ job.source_region # 0
           copied == copy /\ job.jobs[i] = "creatable"
           skip == \/ ~exists /\ ~job.auto_create_job
                   \/ copy /\ ~copied
           j1 == [job EXCEPT
                    !.jobs[i] = IF copied THEN "has" ELSE @,
                    !.source_region = IF exists /\ @ = 0 THEN i ELSE @]
       IN  IF skip
           THEN job' = JobContinue(j1, "skipped")
           ELSE job' = [j1 EXCEPT !.pc = "launch"]
    /\ UNCHANGED notJobs

\* client.run_job and the check of the returned operation
JobLaunch ==
    /\ job.pc = "launch"
    /\ \E o \in LaunchOutcomes :
        /\ job.jobs[job.idx] # "has" => o = "NotFound"
        /\ job' = CASE o = "ok" /\ job.monitor ->
                        [job EXCEPT !.pc = "monitor", !.execution = "pending", !.polls = 0]
                    [] o = "ok" /\ ~job.monitor -> JobReturn(job, "STARTED")
                    [] o = "operation.exception" -> JobContinue(job, o)
                    [] OTHER -> JobRaise(job, o)
    /\ UNCHANGED notJobs

\* One status read of _monitor_job_execution: the first one returns None when
\* no execution is listed; every read returns a terminal status; any other
\* status is followed by a 3-second sleep and another read.  A read that
\* raises leaves the try block of run_job.
JobPoll ==
    /\ job.pc = "monitor"
    /\ \/ \E e \in ExecutionNext(job.execution) :
            /\ e \notin ExecutionEnded => job.polls < MaxPolls
            /\ LET status == _get_latest_execution_status(e)
                   j1 == [job EXCEPT !.execution = e, !.polls = @ + 1,
                                     !.ended = IF e \in ExecutionEnded THEN e ELSE "None",
                                     !.pollsAfterEnd =
                                        IF job.execution \in ExecutionEnded THEN @ + 1 ELSE @]
               IN  job' = IF status \in terminal_states
                          THEN JobReturn(j1, status)
                          ELSE j1
       \/ /\ job.polls = 0
          /\ job' = JobReturn(job, "None")
       \/ /\ job.polls < MaxPolls
          /\ \E e \in {"GoogleAPICallError", "ResourceExhausted"} : job' = JobRaise(job, e)
    /\ UNCHANGED notJobs

\* ------------------------------------------------------------------------
\* ProcessingRequestManager and ProcessRunner on control.processing_requests
\* ------------------------------------------------------------------------
MaxRequests == 3     \* rows of processing_requests
MaxRuns     == 2     \* ProcessRunner calls per behaviour

notRunner == <<dbVars, cartoVars, rateVars, fbVars, jobVars, opsVars, auxVars>>
\* task_type values: a task whose run() returns and one whose run() raises
TaskTypes == {"Task", "RaisingTask"}
Statuses == {"not_started", "running", "completed"}
\* The methods class ProcessRunner defines
ProcessRunnerMethods == {"__init__", "check_open_requests", "run_request", "run_check"}
NoRun == [last |-> "None", picked |-> 0, exception |-> "None", writes |-> <<>>,
          invoked |-> 0, status |-> "None", runs |-> 0]

\* ProcessingRequestManager.insert_request: a new row in status not_started
insert_request ==
    /\ Len(requests) < MaxRequests
    /\ \E t \in TaskTypes :
        requests' = Append(requests,
            [id |-> Len(requests) + 1, status |-> "not_started",
             task_type |-> [kind |-> "str", name |-> t]])
    /\ UNCHANGED <<runner, notRunner>>

\* ProcessingRequestManager.update_request(status) for the row of its request
update_request ==
    /\ \E id \in 1..Len(requests), status \in Statuses :
        /\ requests[id].status # status
        /\ requests' = [requests EXCEPT ![id].status = status]
    /\ UNCHANGED <<runner, notRunner>>

\* check_open_requests: the rows SELECT ... WHERE status = 'not_started'
\* LIMIT 1 can return, each as a one-row list; None when there is none.
check_open_requests ==
    {[kind |-> "list", items |-> <<[kind |-> "dict", row |-> requests[id]]>>] :
        id \in {n \in 1..Len(requests) : requests[n].status = "not_started"}}

\* A value can be called when it is a class; task_type is read from the
\* table, where insert_request stored it, and arrives as a string.
Callable(value) == value.kind = "class"

\* value[0] in Python: the first item of a list; on a row dict, whose keys
\* are column names, the lookup of key 0 raises KeyError.
GetItem0(value) ==
    IF value.kind = "list"
    THEN IF value.items = <<>>
         THEN [exception |-> "IndexError"]
         ELSE [exception |-> "None", value |-> value.items[1]]
    ELSE [exception |-> "KeyError"]

\* run_request(request), as the row updates it makes, the request whose run()
\* it invokes, and the exception that ends it.
run_request(request) ==
    LET item == GetItem0(request)
        none == [exception |-> "None", writes |-> <<>>, invoked |-> 0]
    IN  IF item.exception # "None"
        THEN [none EXCEPT !.exception = item.exception]
        ELSE IF "update_request" \notin ProcessRunnerMethods
        THEN [none EXCEPT !.exception = "AttributeError"]
        ELSE IF item.value.kind # "dict"
        THEN [none EXCEPT !.exception = "AttributeError"]
        ELSE LET row == item.value.row
                 running == [id |-> row.id, status |-> "running"]
                 completed == [id |-> row.id, status |-> "completed"]
             IN  IF ~Callable(row.task_type)
                 THEN [none EXCEPT !.exception = "TypeError", !.writes = <<running>>]
                 ELSE IF row.task_type.name = "RaisingTask"
                 THEN [exception |-> "TaskError", writes |-> <<running>>,
                       invoked |-> row.id]
                 ELSE [exception |-> "None", writes |-> <<running, completed>>,
                       invoked |-> row.id]

RECURSIVE ApplyWrites(_, _)
ApplyWrites(rows, writes) ==
    IF writes = <<>> THEN rows
    ELSE ApplyWrites([rows EXCEPT ![Head(writes).id].status = Head(writes).status],
                     Tail(writes))

\* run_check: the open request, its first row, and run_request on that row
RunCheck ==
    /\ runner.runs < MaxRuns
    /\ IF check_open_requests = {}
       THEN /\ runner' = [NoRun EXCEPT !.last = "run_check", !.runs = runner.runs + 1]
            /\ UNCHANGED requests
       ELSE \E found \in check_open_requests :
            LET request == GetItem0(found).value
                effect == run_request(request)
            IN  /\ requests' = ApplyWrites(requests, effect.writes)
                /\ runner' = [last |-> "run_check", picked |-> request.row.id,
                              exception |-> effect.exception, writes |-> effect.writes,
                              invoked |-> effect.invoked,
                              status |-> requests'[request.row.id].status,
                              runs |-> runner.runs + 1]
    /\ UNCHANGED notRunner

\* run_request called with the list check_open_requests returned
RunRequest ==
    /\ runner.runs < MaxRuns
    /\ \E found \in check_open_requests :
        LET effect == run_request(found)
        IN  /\ requests' = ApplyWrites(requests, effect.writes)
            /\ runner' = [last |-> "run_request", picked |-> found.items[1].row.id,
                          exception |-> effect.exception, writes |-> effect.writes,
                          invoked |-> effect.invoked,
                          status |-> requests'[found.items[1].row.id].status,
                          runs |-> runner.runs + 1]
    /\ UNCHANGED notRunner

\* ------------------------------------------------------------------------
\* PostgresManager.connect_with_retries
\* ------------------------------------------------------------------------
connect_max_retries == 5
MaxConnectCalls == 2   \* connect_with_retries calls per behaviour

notConnecting == <<auxVars, pk, table, txTable, call, nCalls, cartoVars, rateVars, fbVars,
                   jobVars, runnerVars, sweep, baseCheck, alertLog, gcs, modelDir,
                   games, retrying>>
\* What psycopg2.connect does: it returns a connection, raises
\* OperationalError, or raises another exception.
ConnectOutcomes == {"ok", "OperationalError", "Error"}
IdleConnect == [pc |-> "idle", attempt |-> 0, tried |-> 0, sleeps |-> <<>>,
                left |-> 0, outcome |-> "None", history |-> <<>>]

RECURSIVE Pow2(_)
Pow2(n) == IF n = 0 THEN 1 ELSE 2 * Pow2(n - 1)

\* A mutant of Backoff: the wait grows by one second per attempt.
BackoffLinear(attempt) == attempt + 1

\* sleep_time = 2**attempt
Backoff(attempt) == Pow2(attempt)

ConnectDone(c, outcome) ==
    [c EXCEPT !.pc = "done", !.outcome = outcome,
              !.history = Append(@, [tried |-> c.tried, sleeps |-> c.sleeps,
                                     outcome |-> outcome])]

connect_with_retries ==
    /\ connecting.pc \in {"idle", "done"}
    /\ Len(connecting.history) < MaxConnectCalls
    /\ connecting' = [IdleConnect EXCEPT !.pc = "connect",
                                         !.history = connecting.history]
    /\ UNCHANGED <<conn, notConnecting>>

\* One pass of the for loop: psycopg2.connect, and on OperationalError the
\* choice between sleeping and raising ConnectionError.
ConnectAttempt ==
    /\ connecting.pc = "connect"
    /\ \E o \in ConnectOutcomes :
        LET c == [connecting EXCEPT !.tried = @ + 1]
        IN  CASE o = "ok" ->
                    /\ connecting' = ConnectDone(c, "True")
                    /\ conn' = NewConnection
              [] o = "Error" ->
                    /\ connecting' = ConnectDone(c, "Error")
                    /\ UNCHANGED conn
              [] OTHER ->
                    /\ connecting' =
                        IF c.attempt < connect_max_retries - 1
                        THEN [c EXCEPT !.pc = "sleep",
                                       !.sleeps = Append(@, Backoff(c.attempt)),
                                       !.left = Backoff(c.attempt)]
                        ELSE ConnectDone(c, "ConnectionError")
                    /\ UNCHANGED conn
    /\ UNCHANGED notConnecting

\* One second of sleep(sleep_time); the loop goes on when it is over.
ConnectSleep ==
    /\ connecting.pc = "sleep"
    /\ connecting' =
        IF connecting.left = 1
        THEN [connecting EXCEPT !.pc = "connect", !.left = 0, !.attempt = @ + 1]
        ELSE [connecting EXCEPT !.left = @ - 1]
    /\ UNCHANGED <<conn, notConnecting>>

\* ------------------------------------------------------------------------
\* AlertManager.main: one sweep over the loaded checks, then the digest
\* ------------------------------------------------------------------------
MaxChecks == 3   \* checks loaded by one sweep
MaxSweeps == 1   \* sweeps per behaviour

notSweep == <<baseVars, auxVars, connecting, baseCheck, alertLog, gcs, modelDir, games,
              retrying>>

\* What evaluating one loaded check does: it is not active, check_condition
\* returns (False, _) or (True, _), or something inside check() raises.
CheckOutcomes == {"inactive", "clear", "triggered", "raises"}

IdleSweep ==
    [pc |-> "idle", loaded |-> FALSE, checks |-> <<>>, idx |-> 1,
     evaluated |-> <<>>, alert_results |-> <<>>, errors |-> {},
     email |-> "none", sweeps |-> 0]

\* A mutant of check: an exception is reported as a triggered alert.
CheckErrorTriggers(outcome) ==
    [is_triggered |-> outcome \in {"triggered", "raises"},
     logged |-> outcome = "raises"]

\* BaseCheck.check(): True only when the check is active and its condition
\* triggered; the except clause logs and returns False.
check(outcome) ==
    [is_triggered |-> outcome = "triggered", logged |-> outcome = "raises"]

\* main() starts: the active checks are loaded; a failure of the load is
\* logged by the outer except and leaves nothing to run.
get_all_active_checks ==
    /\ sweep.pc \in {"idle", "done"}
    /\ sweep.sweeps < MaxSweeps
    /\ \/ \E checks \in SeqsUpTo(CheckOutcomes, MaxChecks) :
            sweep' = [IdleSweep EXCEPT !.pc = "loop", !.loaded = TRUE,
                        !.checks = checks,
                        !.evaluated = [i \in 1..Len(checks) |-> 0],
                        !.sweeps = sweep.sweeps + 1]
       \/ sweep' = [IdleSweep EXCEPT !.pc = "email",
                        !.sweeps = sweep.sweeps + 1]
    /\ UNCHANGED notSweep

\* One iteration of `for check in checks`: is_triggered = check.check(); a
\* triggered alert is stored for the notification.
MainLoop ==
    /\ sweep.pc = "loop"
    /\ IF sweep.idx > Len(sweep.checks)
       THEN sweep' = [sweep EXCEPT !.pc = "email"]
       ELSE LET r == check(sweep.checks[sweep.idx])
            IN  sweep' = [sweep EXCEPT
                    !.idx = @ + 1,
                    !.evaluated[sweep.idx] = @ + 1,
                    !.errors = IF r.logged THEN @ \cup {sweep.idx} ELSE @,
                    !.alert_results =
                        IF r.is_triggered THEN Append(@, sweep.idx) ELSE @]
    /\ UNCHANGED notSweep

\* `if alert_results: self._send_email_alerts(alert_results)`: one email for
\* the whole sweep; a failure to send is logged.
_send_email_alerts ==
    /\ sweep.pc = "email"
    /\ IF sweep.alert_results # <<>>
       THEN \E sent \in BOOLEAN :
            sweep' = [sweep EXCEPT !.pc = "done",
                        !.email = IF sent THEN "sent" ELSE "failed"]
       ELSE sweep' = [sweep EXCEPT !.pc = "done"]
    /\ UNCHANGED notSweep

\* ------------------------------------------------------------------------
\* BaseCheck: the monitoring window.  Time is counted in half hours of UTC
\* since midnight of day 0; US/Central is 6 hours (CST) or 5 hours (CDT)
\* behind UTC.
\* ------------------------------------------------------------------------
HalfHoursPerDay == 48
FirstHalfHour == 48     \* the behaviour starts at 00:00 UTC of day 1
LastHalfHour == 144     \* and ends at 00:00 UTC of day 3
HourChoices == {0, 6, 22, 24}
CentralOffsets == {5, 6}

notBaseCheck == <<baseVars, auxVars, connecting, sweep, alertLog, gcs, modelDir, games,
                  retrying>>

\* A mutant of _in_monitoring_window: the window is laid on the UTC date.
InWindowOfUtcDate(start_hour_utc, end_hour_utc, dt_now, offset) ==
    LET day == dt_now \div HalfHoursPerDay
        next_day == IF end_hour_utc < start_hour_utc THEN day + 1 ELSE day
    IN  IF start_hour_utc > 23 \/ end_hour_utc > 23 THEN TRUE
        ELSE /\ dt_now > day * HalfHoursPerDay + 2 * start_hour_utc
             /\ dt_now < next_day * HalfHoursPerDay + 2 * end_hour_utc

\* _in_monitoring_window: the window starts at start_hour UTC of the current
\* US/Central date and ends at end_hour UTC of that date, or of the next
\* date when end_hour < start_hour; datetime() rejects an hour above 23 and
\* the except clause then answers True.
_in_monitoring_window(start_hour_utc, end_hour_utc, dt_now, offset) ==
    LET cst_dt == (dt_now - 2 * offset) \div HalfHoursPerDay
        next_day == IF end_hour_utc < start_hour_utc THEN cst_dt + 1 ELSE cst_dt
        start_window == cst_dt * HalfHoursPerDay + 2 * start_hour_utc
        end_window == next_day * HalfHoursPerDay + 2 * end_hour_utc
    IN  IF start_hour_utc > 23 \/ end_hour_utc > 23 THEN TRUE
        ELSE dt_now > start_window /\ dt_now < end_window

\* BaseCheck.__init__ from a configuration row and _check_is_active.
_check_is_active(c, dt_now, offset) ==
    LET always_on == c.start_hour = 0 /\ c.end_hour = 24
        is_paused == ~c.is_active
    IN  IF is_paused THEN FALSE
        ELSE IF always_on THEN TRUE
        ELSE _in_monitoring_window(c.start_hour, c.end_hour, dt_now, offset)

\* The check is asked whether it is active now.
CheckIsActive ==
    /\ baseCheck' = [baseCheck EXCEPT
            !.asked = TRUE, !.at = baseCheck.now,
            !.active = _check_is_active(baseCheck.config, baseCheck.now,
                                        baseCheck.offset)]
    /\ UNCHANGED notBaseCheck

\* Half an hour passes.
HalfHourPasses ==
    /\ baseCheck.now < LastHalfHour
    /\ baseCheck' = [baseCheck EXCEPT !.now = @ + 1]
    /\ UNCHANGED notBaseCheck

\* ------------------------------------------------------------------------
\* LoggerManager.check_alert_log and the table control.alert_log
\* ------------------------------------------------------------------------
MaxAlertCalls == 3   \* check_alert_log calls per behaviour
MaxDays == 1         \* the behaviour covers days 0..MaxDays
AlertNames == {"a1", "a2"}
AlertDescriptions == {"d1"}

notAlertLog == <<baseVars, auxVars, connecting, sweep, baseCheck, gcs, modelDir, games,
                 retrying>>

IdleAlertLog == [day |-> 0, rows |-> <<>>, emails |-> <<>>, calls |-> <<>>]

\* The rows the SELECT of check_alert_log returns: same name and
\* description, disabled = true, created today.
AlertLogQuery(rows, alert_name, alert_description, day) ==
    SelectSeq(rows, LAMBDA r :
        /\ r.alert_name = alert_name
        /\ r.alert_description = alert_description
        /\ r.disabled = TRUE
        /\ r.created_at = day)

\* check_alert_log(alert_name, alert_description): when the query returns
\* nothing a record with disabled False is inserted (the result of
\* insert_rows is not looked at) and the email is sent; sending can raise.
check_alert_log ==
    /\ Len(alertLog.calls) < MaxAlertCalls
    /\ \E alert_name \in AlertNames, alert_description \in AlertDescriptions,
          inserted \in BOOLEAN, sent \in BOOLEAN :
        LET alert_log == AlertLogQuery(alertLog.rows, alert_name,
                                       alert_description, alertLog.day)
            record == [alert_name |-> alert_name,
                       alert_description |-> alert_description,
                       disabled |-> FALSE, created_at |-> alertLog.day]
            key == [alert_name |-> alert_name,
                    alert_description |-> alert_description,
                    day |-> alertLog.day]
        IN  IF Len(alert_log) = 0
            THEN alertLog' = [alertLog EXCEPT
                    !.rows = IF inserted THEN Append(@, record) ELSE @,
                    !.emails = IF sent THEN Append(@, key) ELSE @,
                    !.calls = Append(@, [key |-> key, found |-> FALSE,
                                         inserted |-> inserted, sent |-> sent])]
            ELSE /\ inserted /\ sent
                 /\ alertLog' = [alertLog EXCEPT
                        !.calls = Append(@, [key |-> key, found |-> TRUE,
                                             inserted |-> FALSE, sent |-> FALSE])]
    /\ UNCHANGED notAlertLog

\* Somebody outside this program marks a logged alert as disabled.
DisableAlert ==
    /\ \E i \in 1..Len(alertLog.rows) :
        /\ ~alertLog.rows[i].disabled
        /\ alertLog' = [alertLog EXCEPT !.rows[i].disabled = TRUE]
    /\ UNCHANGED notAlertLog

\* CURRENT_DATE moves on.
DayPasses ==
    /\ alertLog.day < MaxDays
    /\ alertLog' = [alertLog EXCEPT !.day = @ + 1]
    /\ UNCHANGED notAlertLog

\* ------------------------------------------------------------------------
\* ModelManager.save_model_to_gcs: the bucket holds objects under
\* models/production/{name}_{kind} and models/archive/{name}_{stamp}_{kind};
\* time is counted in seconds, the resolution of the timestamps.
\* ------------------------------------------------------------------------
MaxGcsSaves == 2     \* save_model_to_gcs calls per behaviour
MaxElapsed == 1      \* seconds between two calls: 0..MaxElapsed
GcsNames == {"m1", "m2"}
GcsKinds == <<"model.pkl", "results.json", "metadata.json">>
\* Where a storage request of one call can fail: the copy to the archive,
\* the re-read of the metadata, the delete from production, the upload of
\* the new model.
GcsFaults == {"none", "copy", "retrieve", "delete", "upload"}

notGcs == <<baseVars, auxVars, connecting, sweep, baseCheck, alertLog, modelDir, games,
            retrying>>

IdleGcs == [objects |-> {}, clock |-> 1, saves |-> <<>>]

BlobPath(o) == <<o.dir, o.name, o.stamp, o.kind>>

\* bucket.blob(path) when it exists: the objects stored under that path.
Blobs(objects, dir, name, stamp, kind) ==
    {o \in objects : BlobPath(o) = <<dir, name, stamp, kind>>}

\* blob.upload_from_string: the object replaces whatever the path held.
Upload(objects, o) == {x \in objects : BlobPath(x) # BlobPath(o)} \cup {o}

\* A mutant of archive_path_with_created_time: the archive path carries the
\* time of the archiving call.
ArchivePathWithCallTime(production_blob, timestamp) == timestamp

\* The stamp in the archive path is the creation time of the object that is
\* archived, not the timestamp of the call.
archive_path_with_created_time(production_blob, timestamp) ==
    production_blob.created

\* One round of the loop of _archive_existing_model: an existing production
\* object is copied to the archive (the metadata copy is rewritten with
\* status "archived"), then deleted from production; an exception ends the
\* round where it happens.
ArchiveFile(objects, name, kind, timestamp, fault) ==
    LET found == Blobs(objects, "production", name, 0, kind)
        production_blob == CHOOSE o \in found : TRUE
        copy == [production_blob EXCEPT
                    !.dir = "archive",
                    !.stamp = archive_path_with_created_time(production_blob,
                                                             timestamp),
                    !.created = timestamp]
        stored == IF kind = "metadata.json" /\ fault # "retrieve"
                  THEN [copy EXCEPT !.status = "archived"]
                  ELSE copy
    IN  IF found = {} \/ fault = "copy" THEN objects
        ELSE IF fault = "delete" THEN Upload(objects, stored)
        ELSE Upload(objects, stored) \ {production_blob}

FaultAt(fault, faultKind, k) == IF faultKind = k THEN fault ELSE "none"

_archive_existing_model(objects, name, timestamp, fault, faultKind) ==
    LET a1 == ArchiveFile(objects, name, GcsKinds[1], timestamp,
                          FaultAt(fault, faultKind, 1))
        a2 == ArchiveFile(a1, name, GcsKinds[2], timestamp,
                          FaultAt(fault, faultKind, 2))
    IN  ArchiveFile(a2, name, GcsKinds[3], timestamp,
                    FaultAt(fault, faultKind, 3))

ProductionBlob(name, kind, timestamp, data) ==
    [dir |-> "production", name |-> name, stamp |-> 0, kind |-> kind,
     created |-> timestamp, data |-> data,
     status |-> IF kind = "metadata.json" THEN "production" ELSE "none"]

\* save_model_to_gcs(model, name, results): what production holds is
\* archived, then the model, the results when given, and the metadata are
\* stored in production.
save_model_to_gcs ==
    /\ Len(gcs.saves) < MaxGcsSaves
    /\ \E name \in GcsNames, results \in BOOLEAN, elapsed \in 0..MaxElapsed,
          fault \in GcsFaults, faultKind \in 1..3 :
        LET timestamp == gcs.clock + elapsed
            data == Len(gcs.saves) + 1
            archived == _archive_existing_model(gcs.objects, name, timestamp,
                                                fault, faultKind)
            withModel == Upload(archived,
                            ProductionBlob(name, GcsKinds[1], timestamp, data))
            withResults == IF results
                           THEN Upload(withModel,
                                    ProductionBlob(name, GcsKinds[2], timestamp, data))
                           ELSE withModel
            stored == Upload(withResults,
                            ProductionBlob(name, GcsKinds[3], timestamp, data))
        IN  /\ (fault \in {"none", "upload"} => faultKind = 1)
            /\ (fault = "retrieve" => faultKind = 3)
            /\ gcs' = [objects |-> IF fault = "upload" THEN archived ELSE stored,
                       clock |-> timestamp,
                       saves |-> Append(gcs.saves,
                                    [name |-> name, timestamp |-> timestamp,
                                     fault |-> fault,
                                     before |-> gcs.objects])]
    /\ UNCHANGED notGcs

\* ------------------------------------------------------------------------
\* ModelManager.save_model: the files of base_path.  A file name is the
\* sequence of its character codes, so that startswith, endswith and the
\* order of sort() are those of Python strings; a timestamp is one digit.
\* ------------------------------------------------------------------------
MaxLocalSaves == 3   \* save_model calls per behaviour
MaxVersionsKept == 2 \* max_versions is drawn from 1..MaxVersionsKept
Dash == 45
Dot == 46
Digit0 == 48
Underscore == 95
\* The model names "m", "m-1" and "n".
LocalNames == {<<109>>, <<109, Dash, 49>>, <<110>>}
PklSuffix == <<Dot, 112>>                  \* ".pkl"
MetadataSuffix == <<Underscore, 109>>      \* "_metadata.json"

notModelDir == <<baseVars, auxVars, connecting, sweep, baseCheck, alertLog, gcs, games,
                 retrying>>

\* f"{name}_{timestamp}.pkl" and f"{name}_{timestamp}_metadata.json"
FileName(f) ==
    f.name \o <<Underscore, Digit0 + f.timestamp>> \o
        (IF f.pkl THEN PklSuffix ELSE MetadataSuffix)

StartsWith(s, prefix) ==
    Len(prefix) <= Len(s) /\ SubSeq(s, 1, Len(prefix)) = prefix

EndsWith(s, suffix) ==
    Len(suffix) <= Len(s)
        /\ SubSeq(s, Len(s) - Len(suffix) + 1, Len(s)) = suffix

\* a < b for Python strings
RECURSIVE StrLess(_, _)
StrLess(a, b) ==
    IF b = <<>> THEN FALSE
    ELSE IF a = <<>> THEN TRUE
    ELSE IF Head(a) # Head(b) THEN Head(a) < Head(b)
    ELSE StrLess(Tail(a), Tail(b))

\* _cleanup_old_versions(name): the files that start with name and end with
\* ".pkl" are sorted in reverse; every file after the first max_versions is
\* removed together with its metadata sidecar.  The result is the set of
\* removed files.
_cleanup_old_versions(files, name, max_versions) ==
    LET listed == {f \in files : StartsWith(FileName(f), name)
                                    /\ EndsWith(FileName(f), PklSuffix)}
        old == {f \in listed :
                    Cardinality({g \in listed :
                        StrLess(FileName(f), FileName(g))}) >= max_versions}
    IN  old \cup {f \in files : \E o \in old :
                    FileName(f) = SubSeq(FileName(o), 1,
                                    Len(FileName(o)) - Len(PklSuffix))
                                  \o MetadataSuffix}

\* save_model(model, name): the model file and its metadata file are
\* written, then the old versions are cleaned up.
save_model ==
    /\ Len(modelDir.saves) < MaxLocalSaves
    /\ \E name \in LocalNames, elapsed \in 0..MaxElapsed :
        LET timestamp == modelDir.clock + elapsed
            written == modelDir.files \cup
                {[name |-> name, timestamp |-> timestamp, pkl |-> TRUE],
                 [name |-> name, timestamp |-> timestamp, pkl |-> FALSE]}
            removed == _cleanup_old_versions(written, name,
                                             modelDir.max_versions)
        IN  modelDir' = [modelDir EXCEPT
                !.clock = timestamp,
                !.files = written \ removed,
                !.saves = Append(@, [name |-> name, written |-> written,
                                     removed |-> removed])]
    /\ UNCHANGED notModelDir

\* ------------------------------------------------------------------------
\* GameCartographer: map and get_or_create over the loaded games.  Times are
\* hours since midnight of day 0; ids of stored games are 1, 2, ...; the
\* n-th uuid4() of a session is FirstUuid + n.
\* ------------------------------------------------------------------------
MaxGameCalls == 2    \* map / get_or_create calls per behaviour
HoursPerDay == 24
NoTime == 0          \* start_time=None
FirstUuid == 100
GameSourceIds == {"x", "y"}

notGames == <<baseVars, auxVars, connecting, sweep, baseCheck, alertLog, gcs, modelDir,
              retrying>>

StoredGame(id, away_id, home_id, away, home, start_time) ==
    [id |-> id, away_team_id |-> away_id, home_team_id |-> home_id,
     away_team |-> away, home_team |-> home,
     game_date |-> start_time \div HoursPerDay, start_time |-> start_time]

\* The table core.games: a double header A @ B, a game A @ C on the same
\* day, and B @ A on the next day.
GamePool ==
    <<StoredGame(1, "A", "B", "ta", "tb", 10),
      StoredGame(2, "A", "B", "ta", "tb", 18),
      StoredGame(3, "A", "C", "ta", "tc", 14),
      StoredGame(4, "B", "A", "tb", "ta", 34)>>

GameNone == [id |-> 0]
NoMatch == [game |-> GameNone, confidence_rating |-> 0, method |-> "none"]

_match_by_team_ids_date(pool, away_team_id, home_team_id, game_date, swap) ==
    SelectSeq(pool, LAMBDA game :
        /\ game.game_date = game_date
        /\ \/ game.away_team_id = away_team_id /\ game.home_team_id = home_team_id
           \/ swap /\ game.away_team_id = home_team_id
                   /\ game.home_team_id = away_team_id)

_match_by_single_team_id_date(pool, team_id, game_date) ==
    SelectSeq(pool, LAMBDA game :
        /\ game.game_date = game_date
        /\ (game.away_team_id = team_id \/ game.home_team_id = team_id))

_match_by_teams_date(pool, away, home, game_date, swap) ==
    SelectSeq(pool, LAMBDA game :
        /\ game.game_date = game_date
        /\ \/ game.away_team = away /\ game.home_team = home
           \/ swap /\ game.away_team = home /\ game.home_team = away)

TimeDiff(a, b) == IF a < b THEN b - a ELSE a - b

\* The candidate closest to the target time (the first one on a tie), if it
\* is less than 24 hours away.
_match_by_closest_time(candidates, target_time) ==
    LET best == CHOOSE i \in 1..Len(candidates) :
            \A j \in 1..Len(candidates) :
                LET di == TimeDiff(candidates[i].start_time, target_time)
                    dj == TimeDiff(candidates[j].start_time, target_time)
                IN  IF j < i THEN dj > di ELSE dj >= di
    IN  IF candidates # <<>>
            /\ TimeDiff(candidates[best].start_time, target_time) < HoursPerDay
        THEN candidates[best]
        ELSE GameNone

\* One matching step of map(): a single candidate is taken, several are
\* told apart by the closest start time.
MatchStep(matches, game_dt, method, confidence, time_confidence) ==
    IF Len(matches) = 1
    THEN [game |-> matches[1], confidence_rating |-> confidence,
          method |-> method]
    ELSE IF Len(matches) > 1 /\ _match_by_closest_time(matches, game_dt) # GameNone
    THEN [game |-> _match_by_closest_time(matches, game_dt),
          confidence_rating |-> time_confidence, method |-> method]
    ELSE NoMatch

\* GameCartographer.map without its effects: the cached game, or the first
\* of the steps 2 (both team ids), 3 (a team id), 4 (team names) that match.
GameMatch(g, in) ==
    LET game_date == in.start_time \div HoursPerDay
        step2 == IF in.away_team_id # "None" /\ in.home_team_id # "None"
                 THEN MatchStep(_match_by_team_ids_date(g.entities,
                            in.away_team_id, in.home_team_id, game_date,
                            g.allow_swapped_teams),
                        in.start_time, "team_ids_date", 100, 95)
                 ELSE NoMatch
        single_team_id == IF in.away_team_id # "None" THEN in.away_team_id
                          ELSE in.home_team_id
        step3 == IF in.away_team_id # "None" \/ in.home_team_id # "None"
                 THEN MatchStep(_match_by_single_team_id_date(g.entities,
                            single_team_id, game_date),
                        in.start_time, "single_team_id_date", 85, 80)
                 ELSE NoMatch
        step4 == IF in.away_team # "None" /\ in.home_team # "None"
                 THEN MatchStep(_match_by_teams_date(g.entities, in.away_team,
                            in.home_team, game_date, g.allow_swapped_teams),
                        in.start_time, "teams_date", 100, 90)
                 ELSE NoMatch
    IN  IF g.cache[in.data_source_id] # GameNone
        THEN [game |-> g.cache[in.data_source_id], confidence_rating |-> 0,
              method |-> "cache"]
        ELSE IF in.start_time = NoTime THEN NoMatch
        ELSE IF step2 # NoMatch THEN step2
        ELSE IF step3 # NoMatch THEN step3
        ELSE step4

\* _add_mapping: the cache entry and the pending source-map row.
GameAddMapping(g, data_source_id, game, confidence_rating) ==
    [g EXCEPT !.cache[data_source_id] = game,
              !.pending = Append(@, [data_source_id |-> data_source_id,
                                     entity_id |-> game.id,
                                     confidence_rating |-> confidence_rating])]

\* The state after map(): a match that did not come from the cache is added
\* as a mapping.
GameAfterMap(g, in) ==
    LET m == GameMatch(g, in)
    IN  IF m.method \in {"cache", "none"} THEN g
        ELSE GameAddMapping(g, in.data_source_id, m.game, m.confidence_rating)

GameInputs ==
    [data_source_id : GameSourceIds,
     away_team_id : {"None", "A", "B"}, home_team_id : {"None", "B", "C"},
     names : {<<"None", "None">>, <<"ta", "tb">>},
     start_time : {NoTime, 12, 36}]

GameInput(i) ==
    [data_source_id |-> i.data_source_id, away_team_id |-> i.away_team_id,
     home_team_id |-> i.home_team_id, away_team |-> i.names[1],
     home_team |-> i.names[2], start_time |-> i.start_time]

\* A call of map().
GameMap ==
    /\ games.calls < MaxGameCalls
    /\ \E i \in GameInputs :
        LET in == GameInput(i)
            m == GameMatch(games, in)
        IN  games' = [GameAfterMap(games, in) EXCEPT
                !.calls = @ + 1,
                !.last = [op |-> "map", in |-> in, match |-> m,
                          returned |-> m.game.id]]
    /\ UNCHANGED notGames

\* A mutant of NewGameId: the id is always read from the result of map().
GameIdOfExisting(existing, minted) == existing.id

\* `game_id = existing["id"]` when map() returned a game, else uuid4().
NewGameId(existing, minted) ==
    IF existing # GameNone THEN existing.id ELSE FirstUuid + minted + 1

\* A call of get_or_create(): map(), then the game built from the arguments
\* is cached and queued, with a mapping when map() found nothing.
get_or_create ==
    /\ games.calls < MaxGameCalls
    /\ \E i \in GameInputs :
        LET in == GameInput(i)
            m == GameMatch(games, in)
            mapped == GameAfterMap(games, in)
            game_id == NewGameId(m.game, games.minted)
            game == [StoredGame(game_id, in.away_team_id, in.home_team_id,
                                in.away_team, in.home_team, in.start_time)
                        EXCEPT !.game_date =
                            IF in.start_time = NoTime THEN 0 ELSE @]
            cached == [mapped EXCEPT
                        !.cache[in.data_source_id] = game,
                        !.pending_entities = Append(@, game_id),
                        !.minted = IF m.game = GameNone THEN @ + 1 ELSE @]
            added == IF m.game = GameNone
                     THEN GameAddMapping(cached, in.data_source_id, game, 100)
                     ELSE cached
        IN  games' = [added EXCEPT
                !.calls = @ + 1,
                !.last = [op |-> "get_or_create", in |-> in, match |-> m,
                          returned |-> game_id]]
    /\ UNCHANGED notGames

\* ------------------------------------------------------------------------
\* LoggerManager.retry: the wrapper around a function that can fail
\* ------------------------------------------------------------------------
MaxRetries == 3      \* retries is drawn from 0..MaxRetries
MaxRetryCalls == 3   \* calls of the wrapper per behaviour
FuncErrors == {"ValueError", "KeyError"}

notRetrying == <<baseVars, auxVars, connecting, sweep, baseCheck, alertLog, gcs,
                 modelDir, games>>

IdleRetry ==
    [pc |-> "idle", retries |-> 0, attempt |-> 0, invoked |-> 0,
     sleeps |-> <<>>, failures |-> <<>>, raised |-> "None", wrappers |-> 0]

\* wrapper(*args) is called for a function decorated with retries.
RetryWrapper ==
    /\ retrying.pc \in {"idle", "returned", "raised"}
    /\ retrying.wrappers < MaxRetryCalls
    /\ \E retries \in 0..MaxRetries :
        retrying' = [IdleRetry EXCEPT
            !.pc = IF retries = 0 THEN "raised" ELSE "try",
            !.raised = IF retries = 0 THEN "Exception" ELSE "None",
            !.retries = retries, !.wrappers = retrying.wrappers + 1]
    /\ UNCHANGED notRetrying

\* `return func(*args, **kwargs)` inside the try: the result is returned, or
\* the exception is caught and logged.
RetryAttempt ==
    /\ retrying.pc = "try"
    /\ \/ retrying' = [retrying EXCEPT !.pc = "returned", !.invoked = @ + 1]
       \/ \E e \in FuncErrors :
            retrying' = [retrying EXCEPT !.pc = "sleep", !.invoked = @ + 1,
                                         !.failures = Append(@, e)]
    /\ UNCHANGED notRetrying

\* time.sleep(2**attempt) in the except clause, then the next round of the
\* loop, or `raise Exception(f"Failed after {retries} retries")` after it.
RetrySleep ==
    /\ retrying.pc = "sleep"
    /\ LET last == retrying.attempt + 1 = retrying.retries
       IN  retrying' = [retrying EXCEPT
                !.sleeps = Append(@, Pow2(retrying.attempt)),
                !.attempt = @ + 1,
                !.pc = IF last THEN "raised" ELSE "try",
                !.raised = IF last THEN "Exception" ELSE @]
    /\ UNCHANGED notRetrying

\* ------------------------------------------------------------------------
\* LoggerManager.log, close_logger and update_process_table
\* (src/mg/logging/logger_manager.py), and DataExport.export_data
\* (src/mg/etl/export_data_scrape.py), which logs through it
\* ------------------------------------------------------------------------
notLogger == <<baseVars, opsVars, cron, stale, runners, multi>>

MaxLogCalls == 3

\* the level strings callers pass: the five the method names, and the
\* upper-case ones export_data_scrape.py passes
LogLevels == {"info", "data", "warning", "error", "debug", "ERROR", "INFO"}

\* __init__: the five empty lists; calls and process are history / the table
IdleLogger ==
    [info_logs |-> <<>>, data_logs |-> <<>>, warning_logs |-> <<>>,
     error_logs |-> <<>>, debug_logs |-> <<>>,
     calls |-> <<>>, closed |-> FALSE, process |-> <<>>]

\* log(level, message): the if/elif chain compares the level as given; any
\* other string takes the else branch and is stored as an info message
LogMessage(l, level, message) ==
    LET l1 == [l EXCEPT !.calls = Append(@, level)] IN
    CASE level = "info"    -> [l1 EXCEPT !.info_logs = Append(@, message)]
      [] level = "data"    -> [l1 EXCEPT !.data_logs = Append(@, message)]
      [] level = "warning" -> [l1 EXCEPT !.warning_logs = Append(@, message)]
      [] level = "error"   -> [l1 EXCEPT !.error_logs = Append(@, message)]
      [] level = "debug"   -> [l1 EXCEPT !.debug_logs = Append(@, message)]
      [] OTHER             -> [l1 EXCEPT !.info_logs = Append(@, message)]

log ==
    /\ ~logger.closed
    /\ Len(logger.calls) < MaxLogCalls
    /\ \E level \in LogLevels :
        logger' = LogMessage(logger, level, Len(logger.calls) + 1)
    /\ UNCHANGED notLogger

\* export_data: "missing" is the empty query result, "ok" a finished export,
\* "raisesEarly" an exception before the INFO message, "raisesLate" one after
ExportOutcomes == {"missing", "ok", "raisesEarly", "raisesLate"}

export_data ==
    /\ ~logger.closed
    /\ Len(logger.calls) + 1 < MaxLogCalls
    /\ \E outcome \in ExportOutcomes :
        LET n == Len(logger.calls) + 1
            informed == LogMessage(logger, "INFO", n) IN
        logger' =
            CASE outcome = "missing"     -> LogMessage(logger, "ERROR", n)
              [] outcome = "ok"          -> informed
              [] outcome = "raisesEarly" -> LogMessage(logger, "ERROR", n)
              [] outcome = "raisesLate"  -> LogMessage(informed, "ERROR", n + 1)
    /\ UNCHANGED notLogger

\* update_process_table: the success flag of the process / process_run rows
update_process_table(l) ==
    LET success == IF l.warning_logs # <<>> \/ l.error_logs # <<>>
                   THEN FALSE ELSE TRUE IN
    [l EXCEPT !.process = Append(@, [success |-> success])]

close_logger ==
    /\ ~logger.closed
    /\ logger' = [update_process_table(logger) EXCEPT !.closed = TRUE]
    /\ UNCHANGED notLogger

\* ------------------------------------------------------------------------
\* CronManager.validate_cron_schedule (src/mg/mac/cron_manager.py)
\*
\* A schedule is the sequence of its whitespace-separated parts.  A part is
\* "*" (Star), a part containing "/" (Step), or a comma list of segments; a
\* segment is the tuple of the integers around its "-" signs: <<v>> for "v",
\* <<a, b>> for "a-b", <<a, b, c>> for "a-b-c" and <<>> for a segment int()
\* cannot read.
\* ------------------------------------------------------------------------
notCron == <<baseVars, opsVars, logger, stale, runners, multi>>

Star == [kind |-> "star"]
Step == [kind |-> "step"]
CronList(segs) == [kind |-> "list", segs |-> segs]

\* the valid (lowest, highest) value of minute, hour, day of month, month and
\* day of week
ranges == << <<0, 59>>, <<0, 23>>, <<1, 31>>, <<1, 12>>, <<0, 7>> >>

\* [str(j) for j in range(start, end + 1)], each value a segment of its own
RangeValues(start, end) ==
    IF end < start THEN <<>> ELSE [j \in 1..(end - start + 1) |-> <<start + j - 1>>]

\* one segment of a part of field i: its values, or the error
ValidateSegment(segment, i) ==
    LET lo == ranges[i][1]
        hi == ranges[i][2] IN
    CASE Len(segment) = 2 ->
            IF segment[1] < lo \/ segment[2] > hi
            THEN [ok |-> FALSE, values |-> <<>>, error |-> "Invalid range"]
            ELSE [ok |-> TRUE, values |-> RangeValues(segment[1], segment[2]),
                  error |-> ""]
      [] Len(segment) > 2 ->
            [ok |-> FALSE, values |-> <<>>, error |-> "Invalid range format"]
      [] Len(segment) = 1 ->
            IF segment[1] < lo \/ segment[1] > hi
            THEN [ok |-> FALSE, values |-> <<>>, error |-> "Value out of range"]
            ELSE [ok |-> TRUE, values |-> << <<segment[1]>> >>,
                  error |-> ""]
      [] OTHER ->
            [ok |-> FALSE, values |-> <<>>, error |-> "Invalid value"]

\* the loop over part.split(","): the values collected, or the first error
RECURSIVE ValidateSegments(_, _, _)
ValidateSegments(segs, i, values) ==
    IF segs = <<>> THEN [ok |-> TRUE, values |-> values, error |-> ""]
    ELSE LET r == ValidateSegment(Head(segs), i) IN
         IF r.ok THEN ValidateSegments(Tail(segs), i, values \o r.values)
         ELSE r

\* the loop over the parts: the fixed parts collected, or the first error
RECURSIVE ValidateParts(_, _, _)
ValidateParts(parts, i, fixed_parts) ==
    IF i > Len(parts)
    THEN [ok |-> TRUE, fixed |-> fixed_parts, error |-> ""]
    ELSE IF parts[i].kind # "list"
    THEN ValidateParts(parts, i + 1, Append(fixed_parts, parts[i]))
    ELSE LET r == ValidateSegments(parts[i].segs, i, <<>>) IN
         IF r.ok
         THEN ValidateParts(parts, i + 1, Append(fixed_parts, CronList(r.values)))
         ELSE [ok |-> FALSE, fixed |-> <<>>, error |-> r.error]

\* validate_cron_schedule(schedule): (fixed schedule, None) or (None, error)
ValidateCronSchedule(parts) ==
    IF Len(parts) # 5
    THEN [ok |-> FALSE, fixed |-> <<>>, error |-> "Schedule must have 5 parts"]
    ELSE ValidateParts(parts, 1, <<>>)

\* the numbers schedules are written with: the ends of every field's range
\* and their neighbours
CronNumbers == {0, 1, 5, 7, 8, 12, 13, 23, 24, 31, 32, 59, 60, 70}

CronSegments ==
    {<<>>} \cup {<<v>> : v \in CronNumbers}
           \cup {<<a, b>> : a \in CronNumbers, b \in CronNumbers}
           \cup {<<1, 5, 7>>}

\* a schedule with one part set and "*" elsewhere
OnePart(f, part) == [i \in 1..5 |-> IF i = f THEN part ELSE Star]

\* "70 * * * *" and "0,30 9-17 * * 1-5"
SeventyMinutes == OnePart(1, CronList(<< <<70>> >>))
WorkingHours ==
    <<CronList(<< <<0>>, <<30>> >>), CronList(<< <<9, 17>> >>), Star, Star,
      CronList(<< <<1, 5>> >>)>>

CronSchedules ==
    {OnePart(f, CronList(<<segment>>)) : f \in 1..5, segment \in CronSegments}
    \cup {OnePart(f, CronList(<<segment, <<5>> >>)) :
            f \in 1..5, segment \in {<<a, 7>> : a \in CronNumbers}}
    \cup {OnePart(f, Step) : f \in 1..5}
    \cup {SeventyMinutes, WorkingHours, <<Star, Star, Star, Star>>,
          <<Star, Star, Star, Star, Star, Star>>}

NoCronResult == [ok |-> FALSE, fixed |-> <<>>, error |-> ""]
IdleCron == [schedule |-> <<>>, done |-> FALSE, result |-> NoCronResult]

validate_cron_schedule ==
    /\ ~cron.done
    /\ cron' = [cron EXCEPT !.done = TRUE,
                            !.result = ValidateCronSchedule(cron.schedule)]
    /\ UNCHANGED notCron

\* ------------------------------------------------------------------------
\* StaleCheck.check_condition (src/mg/alerts/stale_checks.py)
\*
\* Instants are counted in half hours of UTC; a naive timestamp is the
\* half-hour count of a US/Central wall clock, offset hours behind UTC.
\* ------------------------------------------------------------------------
notStale == <<baseVars, opsVars, logger, cron, runners, multi>>

MaxTolerance == 2
MaxStaleAge == 5

\* cst.localize(last_updated): the instant of a Central wall-clock time
localize(wall, offset) == wall + 2 * offset

TimestampDetail(instant) == [kind |-> "timestamp", instant |-> instant]
TextDetail(text) == [kind |-> "text", text |-> text]

\* the value of MAX(monitored_column): no row, NULL, a timestamp without a
\* zone, or one with a zone (a timestamptz column)
StaleColumns(now, offset) ==
    {[kind |-> "norows"], [kind |-> "null"]}
    \cup {[kind |-> "naive", wall |-> now - age - 2 * offset] :
            age \in 0..MaxStaleAge}
    \cup {[kind |-> "aware", instant |-> now - age] : age \in 0..MaxStaleAge}

IdleStale ==
    [configured |-> FALSE, tolerance_in_hours |-> 1, offset |-> 6,
     now |-> FirstHalfHour, column |-> [kind |-> "norows"], done |-> FALSE,
     result |-> [triggered |-> FALSE, detail |-> TextDetail("")]]

\* check_condition(): (triggered, detail)
StaleVerdict(c) ==
    IF ~c.configured
    THEN [triggered |-> TRUE, detail |-> TextDetail("Missing configuration")]
    ELSE IF c.column.kind = "norows"
    THEN [triggered |-> TRUE, detail |-> TextDetail("No results from query")]
    ELSE IF c.column.kind = "null"
    THEN [triggered |-> TRUE,
          detail |-> TextDetail("NULL value in monitored column")]
    ELSE LET cutoff_time == c.now - 2 * c.tolerance_in_hours IN
         IF c.column.kind = "naive"
         THEN LET last_updated == localize(c.column.wall, c.offset) IN
              [triggered |-> last_updated < cutoff_time,
               detail |-> TimestampDetail(last_updated)]
         \* a timestamp with a zone reaches  last_updated.tzinfo != cst.tzinfo :
         \* a pytz zone has no attribute tzinfo, the AttributeError is caught
         \* by the except clause
         ELSE [triggered |-> TRUE, detail |-> TextDetail("Error")]

check_condition ==
    /\ ~stale.done
    /\ stale' = [stale EXCEPT !.done = TRUE, !.result = StaleVerdict(stale)]
    /\ UNCHANGED notStale

\* ------------------------------------------------------------------------
\* Several ProcessRunner instances on the same control.processing_requests
\* (src/mg/process_manager/process_runner.py): run_check in its two
\* database steps, the SELECT of check_open_requests and run_request
\* ------------------------------------------------------------------------
NumRunners == 2

RunnerIds == 1..NumRunners

IdleRunners ==
    [proc |-> [p \in RunnerIds |-> [pc |-> "idle", found |-> 0, runs |-> 0]],
     pickedBy |-> [id \in 1..MaxRequests |-> {}],
     invokedBy |-> [id \in 1..MaxRequests |-> {}]]

\* run_check up to the return of check_open_requests: the SELECT ... WHERE
\* status = 'not_started' LIMIT 1 takes no lock and changes no row
RunnerSelect(p) ==
    /\ runners.proc[p].pc = "idle"
    /\ runners.proc[p].runs < MaxRuns
    /\ IF check_open_requests = {}
       THEN runners' = [runners EXCEPT !.proc[p].runs = @ + 1]
       ELSE \E found \in check_open_requests :
            LET id == found.items[1].row.id IN
            runners' = [runners EXCEPT !.proc[p].pc = "selected",
                                       !.proc[p].found = id,
                                       !.pickedBy[id] = @ \cup {p}]
    /\ UNCHANGED <<baseVars, opsVars, logger, cron, stale, multi>>

\* the rest of run_check: run_request on the first row of the list
RunnerRunRequest(p) ==
    /\ runners.proc[p].pc = "selected"
    /\ LET id == runners.proc[p].found
           \* the row as the SELECT returned it
           request == [kind |-> "dict",
                       row |-> [requests[id] EXCEPT !.status = "not_started"]]
           effect == run_request(request)
       IN  /\ requests' = ApplyWrites(requests, effect.writes)
           /\ runners' = [runners EXCEPT
                  !.proc[p] = [pc |-> "idle", found |-> 0, runs |-> @.runs + 1],
                  !.invokedBy[id] =
                      IF effect.invoked = id THEN @ \cup {p} ELSE @]
    /\ UNCHANGED <<dbVars, cartoVars, rateVars, fbVars, jobVars, runner,
                   opsVars, logger, cron, stale, multi>>

RunnersSelect == \E p \in RunnerIds : RunnerSelect(p)
RunnersRunRequest == \E p \in RunnerIds : RunnerRunRequest(p)

\* ------------------------------------------------------------------------
\* CloudRunJobRunner.run_multiple_jobs with monitor=True
\* (src/mg/google_cloud/jobs.py): the threads of the pool each run run_job
\* for the same job; the job exists in the first region
\* ------------------------------------------------------------------------
notMulti == <<baseVars, opsVars, logger, cron, stale, runners>>

execution_count == 2

Threads == 1..execution_count

\* executions: the job's executions in the region, oldest first; thread:
\* own is the execution the thread's run_job started, read the one whose
\* status it returned
IdleMulti ==
    [executions |-> <<>>,
     thread |-> [w \in Threads |->
                    [pc |-> "launch", own |-> 0, read |-> 0, status |-> "None"]]]

\* client.run_job in a thread: a new execution of the job, or a failure
\* (with no other region to go to the call returns (None, None))
MultiLaunch ==
    /\ \E w \in Threads, launched \in BOOLEAN :
        /\ multi.thread[w].pc = "launch"
        /\ multi' =
            IF launched
            THEN [multi EXCEPT !.executions = Append(@, "pending"),
                               !.thread[w].pc = "monitor",
                               !.thread[w].own = Len(multi.executions) + 1]
            ELSE [multi EXCEPT !.thread[w].pc = "done"]
    /\ UNCHANGED notMulti

\* the service moves an execution on
ExecutionProgress ==
    /\ \E i \in 1..Len(multi.executions) :
        \E e \in ExecutionNext(multi.executions[i]) \ {multi.executions[i]} :
            multi' = [multi EXCEPT !.executions[i] = e]
    /\ UNCHANGED notMulti

\* one status read of _monitor_job_execution in a thread:
\* list_executions(parent=job) and next(iter(...)), the newest execution of
\* the job; a terminal status is returned, any other is followed by a sleep
MultiPoll ==
    /\ \E w \in Threads :
        /\ multi.thread[w].pc = "monitor"
        /\ LET latest == Len(multi.executions)
               status == _get_latest_execution_status(multi.executions[latest])
           IN  multi' = [multi EXCEPT
                   !.thread[w].status = status,
                   !.thread[w].read = latest,
                   !.thread[w].pc = IF status \in terminal_states
                                    THEN "done" ELSE "monitor"]
    /\ UNCHANGED notMulti

\* ------------------------------------------------------------------------
\* Initial values, one per subsystem
\* ------------------------------------------------------------------------
InitDb(pkcols, rows) ==
    /\ pk = pkcols
    /\ table = rows
    /\ txTable = rows
    /\ conn = InitConnection
    /\ call = NoCall
    /\ nCalls = 0

InitCarto ==
    /\ cache = [k \in CacheKeys |-> NoEntity]
    /\ pending = <<>>
    /\ mapLog = <<>>
    /\ saveLog = [state |-> "none", before |-> <<>>, after |-> <<>>,
                   result |-> "none"]

InitRate ==
    /\ clock = 0
    /\ request_timestamps = <<>>
    /\ worker = [w \in Workers |-> IdleWorker]
    /\ started = [t \in Times |-> 0]

InitFb(topic, mode) ==
    fb = [pc |-> "idle", calls |-> 0, topic |-> topic, mode |-> mode,
          auto_create_topic |-> TRUE, topic_cache |-> {}, source_region |-> 0,
          idx |-> 1, retry_count |-> 0, errors |-> {}, log |-> <<>>,
          result |-> NoResult]
InitFbQuiet == InitFb([i \in RegionIdx |-> "has"], [i \in RegionIdx |-> "accept"])
InitJobs(jobs) ==
    job = [pc |-> "idle", calls |-> 0, jobs |-> jobs, monitor |-> TRUE,
           auto_create_job |-> TRUE, source_region |-> 0, idx |-> 1, polls |-> 0,
           execution |-> "none", ended |-> "None", pollsAfterEnd |-> 0,
           log |-> <<>>, result |-> NoStatus, raised |-> "None"]
InitJobsQuiet == InitJobs([i \in RegionIdx |-> "has"])
InitRunner == requests = <<>> /\ runner = NoRun
InitConnecting == connecting = IdleConnect
InitSweep == sweep = IdleSweep
InitBaseCheckWith(config, offset) ==
    baseCheck = [config |-> config, offset |-> offset, now |-> FirstHalfHour,
                 asked |-> FALSE, at |-> 0, active |-> FALSE]

InitBaseCheck ==
    InitBaseCheckWith([start_hour |-> 0, end_hour |-> 24, is_active |-> TRUE], 6)
InitAlertLog == alertLog = IdleAlertLog
InitGcs == gcs = IdleGcs
InitModelDirWith(max_versions) ==
    modelDir = [files |-> {}, clock |-> 1, max_versions |-> max_versions,
                saves |-> <<>>]

InitModelDir == InitModelDirWith(1)
NoGameCall ==
    [op |-> "none",
     in |-> [data_source_id |-> "x", away_team_id |-> "None",
             home_team_id |-> "None", away_team |-> "None",
             home_team |-> "None", start_time |-> NoTime],
     match |-> NoMatch, returned |-> 0]

InitGamesWith(loaded, swap) ==
    games = [entities |-> loaded, allow_swapped_teams |-> swap,
             cache |-> [k \in GameSourceIds |-> GameNone],
             pending |-> <<>>, pending_entities |-> <<>>, minted |-> 0,
             calls |-> 0, last |-> NoGameCall]

InitGames == InitGamesWith(<<>>, TRUE)
InitRetrying == retrying = IdleRetry
InitLogger == logger = IdleLogger
InitCron == cron = IdleCron
InitStale == stale = IdleStale
InitRunners == runners = IdleRunners
InitMulti == multi = IdleMulti
InitAux == InitLogger /\ InitCron /\ InitStale /\ InitRunners /\ InitMulti
InitOps ==
    /\ InitConnecting /\ InitSweep /\ InitBaseCheck /\ InitAlertLog
    /\ InitGcs /\ InitModelDir /\ InitGames /\ InitRetrying
    /\ InitAux

\* ------------------------------------------------------------------------
\* insert_rows on a table of the caller
\* ------------------------------------------------------------------------
InitInsert ==
    /\ \E pkcols \in PkChoices, rows \in {{}, {[a |-> 1, b |-> 1]}} :
        InitDb(pkcols, rows)
    /\ InitCarto /\ InitRate /\ InitFbQuiet /\ InitJobsQuiet /\ InitRunner /\ InitOps

NextInsert ==
    \/ StartInsert
    \/ InsertPrepare
    \/ InsertExecRow
    \/ InsertCommit
    \/ InsertExcept
    \/ InsertFinally

SpecInsert == InitInsert /\ [][NextInsert]_vars

\* ------------------------------------------------------------------------
\* A TeamCartographer session: map() and save() calls in any order
\* ------------------------------------------------------------------------
InitCartoSession ==
    /\ InitDb(MapPk, {})
    /\ InitCarto /\ InitRate /\ InitFbQuiet /\ InitJobsQuiet /\ InitRunner /\ InitOps

NextCarto ==
    \/ Map
    \/ SaveEmpty
    \/ SaveStart
    \/ SaveReturn
    \/ InsertPrepare
    \/ InsertExecRow
    \/ InsertCommit
    \/ InsertExcept
    \/ InsertFinally

SpecCarto == InitCartoSession /\ [][NextCarto]_vars

\* ------------------------------------------------------------------------
\* Properties of insert_rows (SpecInsert)
\* ------------------------------------------------------------------------
\* The committed rows after every statement of the batch has taken effect
RECURSIVE ApplyAll(_, _)
ApplyAll(rows, t) ==
    IF rows = <<>> THEN t ELSE ApplyAll(Tail(rows), Upsert(Head(rows), t))

InsertReturned == call.pc \in {"finally", "done"}

\* C1: an insert_rows call is all-or-nothing.  When the call has failed
\* (returned False or raised) the committed table is what it was before the
\* call; when it has succeeded the statement of every row that passed
\* pre-filtering has been committed.
C1_AllOrNothing ==
    InsertReturned =>
        IF call.result = "True"
        THEN /\ table = ApplyAll(call.kept, call.before)
             /\ \A i \in 1..Len(call.kept) :
                    \E r \in table :
                        IF pk = <<>> THEN r = call.kept[i]
                        ELSE Project(r, pk) = Project(call.kept[i], pk)
        ELSE table = call.before

\* C1 witness: a call that failed on a later row after an earlier row of the
\* same batch had been executed, and committed nothing.
C1_Witness ==
    /\ call.pc = "done"
    /\ call.result = "False"
    /\ call.idx > 1
    /\ call.error \in {"UniqueViolation", "DataError", "OperationalError"}
    /\ table = call.before

\* C4: of two rows that agree on every primary-key column exactly one
\* reaches the INSERT (the claim as stated; the code removes both, or, for a
\* key whose columns are not in alphabetical order, neither).
C4_ExactlyOneOfDuplicatePair ==
    (/\ call.pc = "exec"
     /\ pk # <<>>
     /\ Len(call.rows0) = 2
     /\ call.rows0[1] # call.rows0[2]
     /\ Project(call.rows0[1], pk) = Project(call.rows0[2], pk))
    => Len(call.kept) = 1

\* ------------------------------------------------------------------------
\* Properties of the cartographer (SpecCarto)
\* ------------------------------------------------------------------------
\* C2: save() empties the queue only on success, and after a failed save the
\* queue holds exactly the rows it held before the call (the claim as
\* stated; insert_rows removes rows with a repeated key from the queue it
\* is handed).
C2_QueueIntactOnFailure ==
    saveLog.state = "done" =>
        IF saveLog.result = "True" THEN saveLog.after = <<>>
        ELSE saveLog.after = saveLog.before

SameIdPairs ==
    {p \in (1..Len(mapLog)) \X (1..Len(mapLog)) :
        p[1] < p[2] /\ mapLog[p[1]].id = mapLog[p[2]].id}

\* C3 as stated: of two map() calls with the same data_source_id the second
\* returns what the first returned, runs no heuristic matching and queues
\* nothing.
C3_SecondCallFromCache ==
    \A p \in SameIdPairs :
        /\ mapLog[p[2]].ret = mapLog[p[1]].ret
        /\ ~mapLog[p[2]].heuristic
        /\ ~mapLog[p[2]].queued

\* C3 amended: once a map() call with a non-empty data_source_id has
\* returned an entity, every later map() call with that identifier returns
\* the same entity from the cache, without heuristic matching and without
\* queueing a row, whatever name it is given.
C3_CachedAfterMatch ==
    \A p \in SameIdPairs :
        (mapLog[p[1]].id # "" /\ mapLog[p[1]].ret # NoEntity) =>
            /\ mapLog[p[2]].ret = mapLog[p[1]].ret
            /\ ~mapLog[p[2]].heuristic
            /\ ~mapLog[p[2]].queued

\* C3 witness: a second call for a matched identifier whose name, matched
\* afresh, would have given another team.
C3_Witness ==
    \E p \in SameIdPairs :
        /\ mapLog[p[1]].id # ""
        /\ mapLog[p[1]].ret = TeamDallas
        /\ mapLog[p[2]].ret = TeamDallas
        /\ Heuristic(mapLog[p[2]].name).entity = TeamGiants
        /\ Len(pending) = 1

\* C30: within one session heuristic matching never maps two different
\* data_source_ids to the same entity: a matched entity is no longer a
\* candidate for another identifier.
C30_EntityMatchedOnce ==
    \A i, j \in 1..Len(mapLog) :
        (/\ mapLog[i].queued /\ mapLog[j].queued
         /\ mapLog[i].id # "" /\ mapLog[j].id # ""
         /\ mapLog[i].id # mapLog[j].id)
            => mapLog[i].ret # mapLog[j].ret

\* the similarity, in thousandths, behind the queued row i of a fuzzy match
QueuedSimilarity(i) ==
    LET team == CHOOSE t \in {entities[k] : k \in 1..Len(entities)} :
                    t.id = pending[i].entity_id
    IN  name_similarity(pending[i].log_info[2], team.team)

\* C24: when a team is matched by fuzzy name similarity s, the confidence
\* rating queued with the mapping is round(s x 100), s x 100 rounded to the
\* nearest integer.
C24_FuzzyConfidenceRounded ==
    \A i \in 1..Len(pending) :
        pending[i].log_info[1] = "fuzzy" =>
            pending[i].confidence_rating = (QueuedSimilarity(i) + 5) \div 10

\* what the code does keep: the rating is s x 100 with the fraction cut off
C24_FuzzyConfidenceTruncated ==
    \A i \in 1..Len(pending) :
        pending[i].log_info[1] = "fuzzy" =>
            pending[i].confidence_rating = QueuedSimilarity(i) \div 10

\* ------------------------------------------------------------------------
\* The rate limiter under concurrent publish calls (SpecRate)
\* ------------------------------------------------------------------------
InitRateSession ==
    /\ InitDb(<<>>, {})
    /\ InitCarto /\ InitRate /\ InitFbQuiet /\ InitJobsQuiet /\ InitRunner /\ InitOps

NextRate ==
    \/ \E w \in Workers : RateEnter(w)
    \/ \E w \in Workers : RateStore(w)
    \/ \E w \in Workers : RateCheck(w)
    \/ \E w \in Workers : RateWake(w)
    \/ \E w \in Workers : RateAppend(w)
    \/ Tick

SpecRate == InitRateSession /\ [][NextRate]_vars

\* The number of publish calls started in the 60 seconds that end at time t
\* (started[u] counts the calls that passed the limiter at time u)
StartedInWindow(t) ==
    SumOver(started, {u \in Times : u > t - WindowSeconds /\ u <= t})

\* C5: no more than 40 publish calls are started within any rolling
\* 60-second window, across all threads of one PubSub instance (the claim
\* as stated; the limiter takes no lock).
C5_AtMostFortyPerWindow ==
    \A t \in Times : StartedInWindow(t) <= max_requests_per_min

\* ------------------------------------------------------------------------
\* publish_with_fallback against every combination of regional answers
\* (SpecFallback)
\* ------------------------------------------------------------------------
InitFallback ==
    /\ InitDb(<<>>, {})
    /\ InitCarto /\ InitRate /\ InitJobsQuiet /\ InitRunner /\ InitOps
    /\ \E topic \in [RegionIdx -> TopicStates], mode \in [RegionIdx -> PublishModes] :
            InitFb(topic, mode)

NextFallback == FbCall \/ FbRegion \/ FbAttempt

SpecFallback == InitFallback /\ [][NextFallback]_vars

FbLogOf(i) == {k \in 1..Len(fb.log) : fb.log[k].region = i}

\* Every publish attempt made in the primary region failed with a quota
\* error, and there was at least one.
PrimaryQuotaFailed ==
    \E k \in FbLogOf(1) : fb.log[k].outcome = "failed" /\ fb.log[k].errors = {"quota"}

\* Region i has the topic, or gets it by auto-creation, and accepts.
LowerRegionAccepts(i) ==
    /\ i # 1
    /\ fb.mode[i] = "accept"
    /\ fb.topic[i] = "has" \/ (fb.auto_create_topic /\ fb.topic[i] = "creatable")

\* C7: when every publish attempt in the primary region fails on quota and a
\* lower-ranked region has the topic (or gets it by auto-creation) and
\* accepts, publish_with_fallback returns (message_id, region) with a
\* non-primary region of the ranked list; it returns (None, None) only when
\* every region has been skipped or has failed to publish.
C7_FallbackToLowerRegion ==
    fb.pc = "done" =>
        /\ (PrimaryQuotaFailed /\ \E i \in RegionIdx : LowerRegionAccepts(i)) =>
                /\ fb.result.id = "message_id"
                /\ \E i \in RegionIdx \ {1} : fb.result.region = region_rankings[i]
        /\ fb.result = NoResult =>
                /\ \A i \in RegionIdx : FbLogOf(i) # {}
                /\ \A k \in 1..Len(fb.log) : fb.log[k].outcome # "published"

C7_Witness ==
    /\ fb.pc = "done"
    /\ PrimaryQuotaFailed
    /\ fb.mode[2] = "quota"
    /\ fb.result = [id |-> "message_id", region |-> region_rankings[3]]
    /\ 3 \in fb.topic_cache
    /\ LowerRegionAccepts(3)
    /\ Len(fb.log) = 3

\* ------------------------------------------------------------------------
\* run_job against every combination of regional answers (SpecJobs)
\* ------------------------------------------------------------------------
InitJobsSession ==
    /\ InitDb(<<>>, {})
    /\ InitCarto /\ InitRate /\ InitFbQuiet /\ InitRunner /\ InitOps
    /\ \E jobs \in [RegionIdx -> JobStates] : InitJobs(jobs)

NextJobs == RunJob \/ JobRegion \/ JobLaunch \/ JobPoll

SpecJobs == InitJobsSession /\ [][NextJobs]_vars

\* C6: with monitor=True, once the launched execution has reached a terminal
\* state (SUCCEEDED, FAILED, CANCELLED or TIMEOUT), run_job returns that
\* state together with the region and polls no further (the claim as
\* stated; a cancelled or timed-out execution is reported as FAILED).
C6_ReturnsTerminalState ==
    (job.pc = "done" /\ job.monitor /\ job.ended # "None"
        /\ job.log[Len(job.log)].outcome = "returned") =>
            /\ job.result = [status |-> job.ended, region |-> region_rankings[job.idx]]
            /\ job.pollsAfterEnd = 0

JobErrorsAt(i) ==
    {job.log[k].outcome : k \in {n \in 1..Len(job.log) : job.log[n].region = i}}

\* C8: a ResourceExhausted, quota or NotFound error raised while launching in
\* a region never leaves run_job; the regions are visited at most once, in
\* ranked order; and (None, None) is returned only after every region has
\* been tried or skipped.
C8_LaunchErrorsMoveOn ==
    /\ job.raised \notin {"ResourceExhausted", "QuotaExceeded", "NotFound"}
    /\ \A k \in 1..Len(job.log) : job.log[k].region = k
    /\ (job.pc = "done" /\ job.raised = "None" /\ job.result = NoStatus) =>
            Len(job.log) = NumRegions

C8_Witness ==
    /\ job.pc = "done"
    /\ job.result = NoStatus
    /\ job.raised = "None"
    /\ JobErrorsAt(1) = {"ResourceExhausted"}
    /\ JobErrorsAt(2) = {"NotFound"}
    /\ JobErrorsAt(3) = {"QuotaExceeded"}

\* ------------------------------------------------------------------------
\* The process runner polling the request table (SpecRunner)
\* ------------------------------------------------------------------------
InitRunnerSession ==
    /\ InitDb(<<>>, {})
    /\ InitCarto /\ InitRate /\ InitFbQuiet /\ InitJobsQuiet /\ InitRunner /\ InitOps

NextRunner == insert_request \/ update_request \/ RunCheck \/ RunRequest

SpecRunner == InitRunnerSession /\ [][NextRunner]_vars

Written(w) == [k \in 1..Len(w) |-> w[k].status]

\* C9: when run_check finds a not_started request, the request's row is set
\* to running before run() is invoked and to completed after it returns
\* (the claim as stated; run_check ends in a KeyError before any update).
C9_RunCheckCompletes ==
    (runner.last = "run_check" /\ runner.picked # 0
        /\ requests[runner.picked].task_type.name = "Task") =>
            /\ runner.invoked = runner.picked
            /\ Written(runner.writes) = <<"running", "completed">>
            /\ runner.status = "completed"

\* C10: when the task's run() raises, the exception leaves run_request and
\* the request's row stays in status running (the claim as stated; see C9:
\* run_request ends before the row is updated and before run() is invoked).
C10_RaisingTaskStaysRunning ==
    (runner.last = "run_request" /\ runner.picked # 0
        /\ requests[runner.picked].task_type.name = "RaisingTask") =>
            /\ runner.invoked = runner.picked
            /\ runner.exception = "TaskError"
            /\ runner.status = "running"

\* ------------------------------------------------------------------------
\* Establishing the connection (SpecConnect)
\* ------------------------------------------------------------------------
InitBase ==
    /\ InitDb(<<>>, {})
    /\ InitCarto /\ InitRate /\ InitFbQuiet /\ InitJobsQuiet /\ InitRunner

InitConnectSession == InitBase /\ InitOps

NextConnect == connect_with_retries \/ ConnectAttempt \/ ConnectSleep

SpecConnect == InitConnectSession /\ [][NextConnect]_vars

RECURSIVE SumSeq(_)
SumSeq(q) == IF q = <<>> THEN 0 ELSE Head(q) + SumSeq(Tail(q))

\* C11 as stated: at most 5 attempts, a wait of 2^attempt seconds after each
\* failed attempt (1, 2, 4, 8, 16 s, 31 s in total), and a connectivity error
\* once the attempts are exhausted.
C11_WaitsAfterEveryFailure ==
    /\ connecting.tried <= connect_max_retries
    /\ connecting.outcome = "ConnectionError" =>
            /\ connecting.tried = connect_max_retries
            /\ connecting.sleeps = <<1, 2, 4, 8, 16>>
            /\ SumSeq(connecting.sleeps) = 31

\* C11 amended: at most 5 attempts; a wait of 2^attempt seconds after each of
\* the first four attempts that fails with OperationalError (1, 2, 4, 8 s);
\* the fifth failure raises ConnectionError at once, after 15 s of waiting in
\* total; ConnectionError is raised in no other case.
C11_WaitsBetweenAttempts ==
    /\ connecting.tried <= connect_max_retries
    /\ connecting.sleeps = SubSeq(<<1, 2, 4, 8>>, 1, Len(connecting.sleeps))
    /\ connecting.pc \in {"connect", "done"} => Len(connecting.sleeps) = connecting.attempt
    /\ connecting.outcome = "ConnectionError" =>
            /\ connecting.tried = connect_max_retries
            /\ connecting.sleeps = <<1, 2, 4, 8>>
            /\ SumSeq(connecting.sleeps) = 15
    /\ (connecting.pc = "done" /\ connecting.tried = connect_max_retries
            /\ connecting.outcome \notin {"True", "Error"}) =>
                connecting.outcome = "ConnectionError"

C11_Witness ==
    /\ connecting.pc = "done"
    /\ connecting.outcome = "ConnectionError"
    /\ connecting.tried = 5
    /\ SumSeq(connecting.sleeps) = 15

\* ------------------------------------------------------------------------
\* insert_rows on a connection that the server may have dropped while idle
\* ------------------------------------------------------------------------
NextInsertLost == NextInsert \/ ConnectionLost

SpecInsertLost == InitInsert /\ [][NextInsertLost]_vars

\* C12: however an insert_rows call ends by returning (success, a caught
\* database error, a reconnect after a lost connection), the connection's
\* autocommit setting is the one it had before the call and the connection
\* is not inside an open or a failed transaction.
C12_AutocommitRestored ==
    (call.pc = "done" /\ call.result \in {"True", "False"})
        => /\ conn.autocommit = call.autocommit0
           /\ conn.status = "idle"

\* The part of C12 that the code keeps: no returning call leaves the
\* connection inside an open or a failed transaction, and a call that found
\* its connection open restores the autocommit setting.
C12_NoStrandedTransaction ==
    (call.pc = "done" /\ call.result \in {"True", "False"})
        => /\ conn.status = "idle"
           /\ table = txTable
           /\ (call.hasOld /\ call.old = call.autocommit0
                   => conn.autocommit = call.autocommit0)

\* ------------------------------------------------------------------------
\* An Alert Manager sweep
\* ------------------------------------------------------------------------
InitSweepSession == InitBase /\ InitOps

NextSweep == get_all_active_checks \/ MainLoop \/ _send_email_alerts

SpecSweep == InitSweepSession /\ [][NextSweep]_vars

\* The positions of the loaded checks whose condition triggered, in order.
RECURSIVE TriggeredUpTo(_, _)
TriggeredUpTo(checks, n) ==
    IF n = 0 THEN <<>>
    ELSE IF checks[n] = "triggered"
         THEN Append(TriggeredUpTo(checks, n - 1), n)
         ELSE TriggeredUpTo(checks, n - 1)

\* C13: in one sweep every loaded check is evaluated exactly once; a check
\* whose evaluation raised is logged and is not among the triggered alerts,
\* the checks after it are still evaluated, and the digest email for the
\* checks that triggered is attempted.
C13_SweepEvaluatesEveryCheck ==
    /\ \A i \in 1..Len(sweep.checks) :
        /\ sweep.evaluated[i] = (IF i < sweep.idx THEN 1 ELSE 0)
        /\ (i < sweep.idx /\ sweep.checks[i] = "raises"
                => i \in sweep.errors /\ i \notin Range(sweep.alert_results))
    /\ sweep.alert_results = TriggeredUpTo(sweep.checks, sweep.idx - 1)
    /\ (sweep.pc \in {"email", "done"} => sweep.idx = Len(sweep.checks) + 1)
    /\ (sweep.pc = "done"
            => (sweep.email # "none") = (sweep.alert_results # <<>>))

\* A sweep whose first check raised and whose last check triggered has
\* finished, and the digest was attempted.
C13_Witness ==
    /\ sweep.pc = "done"
    /\ Len(sweep.checks) = MaxChecks
    /\ sweep.checks[1] = "raises"
    /\ sweep.checks[MaxChecks] = "triggered"
    /\ sweep.evaluated[MaxChecks] = 1
    /\ sweep.email # "none"

\* ------------------------------------------------------------------------
\* A BaseCheck over two days, in winter or in summer
\* ------------------------------------------------------------------------
InitWindowSession ==
    /\ InitBase
    /\ InitConnecting /\ InitSweep /\ InitAlertLog /\ InitGcs /\ InitModelDir
    /\ InitGames /\ InitRetrying /\ InitAux
    /\ \E s \in HourChoices, e \in HourChoices, a \in BOOLEAN,
          offset \in CentralOffsets :
        InitBaseCheckWith([start_hour |-> s, end_hour |-> e, is_active |-> a],
                          offset)

NextWindow == CheckIsActive \/ HalfHourPasses

SpecWindow == InitWindowSession /\ [][NextWindow]_vars

OvernightCheck ==
    /\ baseCheck.config = [start_hour |-> 22, end_hour |-> 6, is_active |-> TRUE]
    /\ baseCheck.asked

\* C14: a check with start_hour 22 and end_hour 6 that is not paused is
\* active at 23:00 UTC and at 02:00 UTC of the next day, and is not active
\* at 12:00 UTC.
C14_OvernightWindow ==
    OvernightCheck =>
        /\ (baseCheck.at % HalfHoursPerDay = 2 * 23 => baseCheck.active)
        /\ (baseCheck.at % HalfHoursPerDay = 2 * 2 => baseCheck.active)
        /\ (baseCheck.at % HalfHoursPerDay = 2 * 12 => ~baseCheck.active)

\* The overnight check was asked at 02:00 UTC of the day after its window
\* opened, and answered that it is active.
C14_Witness ==
    /\ OvernightCheck
    /\ baseCheck.at = 2 * HalfHoursPerDay + 2 * 2
    /\ baseCheck.active

\* the time of day of instant t lies strictly inside the window from
\* start_hour to end_hour, which wraps past midnight when end_hour < start_hour
InsideUtcWindow(start_hour, end_hour, t) ==
    LET time_of_day == t % HalfHoursPerDay IN
    IF end_hour < start_hour
    THEN time_of_day > 2 * start_hour \/ time_of_day < 2 * end_hour
    ELSE time_of_day > 2 * start_hour /\ time_of_day < 2 * end_hour

WindowedCheck ==
    /\ baseCheck.asked
    /\ baseCheck.config.is_active
    /\ baseCheck.config.start_hour <= 23
    /\ baseCheck.config.end_hour <= 23

\* C28: a check that is not paused and has a UTC monitoring window is active
\* at exactly the UTC instants whose time of day lies strictly inside the
\* window, on either side of midnight US/Central and with either offset of
\* US/Central; a 22-to-6 window is active at 05:30 UTC.
C28_ActiveInsideUtcWindow ==
    WindowedCheck =>
        baseCheck.active =
            InsideUtcWindow(baseCheck.config.start_hour,
                            baseCheck.config.end_hour, baseCheck.at)

\* what the code does keep: between 06:00 UTC and midnight UTC, when the
\* US/Central date is the UTC date, a window that does not wrap is applied
\* as stated
C28_ActiveInsideDaytimeWindow ==
    (WindowedCheck /\ baseCheck.at % HalfHoursPerDay >= 2 * 6
        /\ baseCheck.config.start_hour <= baseCheck.config.end_hour) =>
        baseCheck.active =
            InsideUtcWindow(baseCheck.config.start_hour,
                            baseCheck.config.end_hour, baseCheck.at)

\* ------------------------------------------------------------------------
\* A LoggerManager raising alerts over two days
\* ------------------------------------------------------------------------
InitAlertSession == InitBase /\ InitOps

NextAlert == check_alert_log \/ DisableAlert \/ DayPasses

SpecAlert == InitAlertSession /\ [][NextAlert]_vars

\* C15: for one (alert_name, alert_description) the email is sent at most
\* once per calendar day: a later call of the same day finds the alert
\* logged and neither inserts nor sends.
C15_EmailOncePerDay ==
    \A i, j \in 1..Len(alertLog.calls) :
        (i < j /\ alertLog.calls[i].key = alertLog.calls[j].key
               /\ alertLog.calls[i].inserted /\ alertLog.calls[i].sent)
            => /\ alertLog.calls[j].found
               /\ ~alertLog.calls[j].inserted
               /\ ~alertLog.calls[j].sent

\* ------------------------------------------------------------------------
\* A ModelManager saving models to one bucket
\* ------------------------------------------------------------------------
InitGcsSession == InitBase /\ InitOps

NextGcs == save_model_to_gcs

SpecGcs == InitGcsSession /\ [][NextGcs]_vars

\* The calls made so far for `name`, as positions of gcs.saves.
SavesOf(name) == {i \in 1..Len(gcs.saves) : gcs.saves[i].name = name}

TwoCleanSaves(name) ==
    /\ Cardinality(SavesOf(name)) = 2
    /\ \A i \in SavesOf(name) : gcs.saves[i].fault = "none"

\* C16: after two successive save_model_to_gcs calls for one name (no
\* storage request failing) production holds exactly one model object of
\* that name, written by the second call, and the archive holds exactly one
\* copy of the first call's model, under the first object's creation time,
\* with an archived metadata object whose status is "archived".
C16_OneProductionOneArchive ==
    \A name \in GcsNames :
        TwoCleanSaves(name) =>
            LET first == CHOOSE i \in SavesOf(name) :
                            \A j \in SavesOf(name) : i <= j
                second == CHOOSE i \in SavesOf(name) :
                            \A j \in SavesOf(name) : j <= i
                t1 == gcs.saves[first].timestamp
            IN  /\ {o \in gcs.objects : o.dir = "production" /\ o.name = name
                                        /\ o.kind = "model.pkl"}
                    = {ProductionBlob(name, "model.pkl",
                                      gcs.saves[second].timestamp, second)}
                /\ {<<o.stamp, o.data>> :
                        o \in {x \in gcs.objects : x.dir = "archive"
                                    /\ x.name = name /\ x.kind = "model.pkl"}}
                    = {<<t1, first>>}
                /\ {<<o.stamp, o.data, o.status>> :
                        o \in {x \in gcs.objects : x.dir = "archive"
                                    /\ x.name = name /\ x.kind = "metadata.json"}}
                    = {<<t1, first, "archived">>}

\* Two saves of m1 a second apart, both with results: the first save is in
\* the archive.
C16_Witness ==
    /\ TwoCleanSaves("m1")
    /\ gcs.saves[Len(gcs.saves)].name = "m1"
    /\ gcs.saves[Len(gcs.saves)].timestamp > gcs.saves[1].timestamp
    /\ Cardinality({o \in gcs.objects : o.dir = "archive" /\ o.name = "m1"}) = 3

\* the bucket after the i-th save_model_to_gcs call
GcsAfter(i) ==
    IF i = Len(gcs.saves) THEN gcs.objects ELSE gcs.saves[i + 1].before

\* the production objects of the call's model that are gone after call i
\* (deleted, or overwritten by the new upload)
GcsReplaced(i) ==
    {o \in gcs.saves[i].before :
        /\ o.dir = "production"
        /\ o.name = gcs.saves[i].name
        /\ o \notin GcsAfter(i)}

GcsArchived(i, o) ==
    \E a \in GcsAfter(i) :
        /\ a.dir = "archive"
        /\ a.name = o.name
        /\ a.kind = o.kind
        /\ a.data = o.data

\* C29: save_model_to_gcs never deletes or overwrites an existing production
\* artifact unless a copy of it has been written to the archive: a failure
\* while archiving does not lose the previous production model.
C29_ArchivedBeforeReplaced ==
    \A i \in 1..Len(gcs.saves) :
        \A o \in GcsReplaced(i) : GcsArchived(i, o)

\* what the code does keep: when no copy to the archive fails, every
\* production object a call replaces is in the archive afterwards
C29_ArchivedWhenCopySucceeds ==
    \A i \in 1..Len(gcs.saves) :
        gcs.saves[i].fault # "copy" =>
            \A o \in GcsReplaced(i) : GcsArchived(i, o)

\* ------------------------------------------------------------------------
\* A ModelManager saving models to one directory
\* ------------------------------------------------------------------------
InitLocalSession ==
    /\ InitBase
    /\ InitConnecting /\ InitSweep /\ InitBaseCheck /\ InitAlertLog /\ InitGcs
    /\ InitGames /\ InitRetrying /\ InitAux
    /\ \E max_versions \in 1..MaxVersionsKept : InitModelDirWith(max_versions)

NextLocal == save_model

SpecLocal == InitLocalSession /\ [][NextLocal]_vars

\* The newest n versions of `name` among the model files `files`.
NewestVersions(files, name, n) ==
    {f \in files : f.name = name /\ f.pkl
        /\ Cardinality({g \in files : g.name = name /\ g.pkl
                            /\ g.timestamp > f.timestamp}) < n}

\* C17: the pruning of save_model(name) removes only files of the model
\* `name`: the versions beyond the newest max_versions, each with its
\* metadata sidecar; the newest max_versions versions of name remain.
C17_PrunesOnlyOwnOldVersions ==
    \A i \in 1..Len(modelDir.saves) :
        LET s == modelDir.saves[i]
            newest == NewestVersions(s.written, s.name, modelDir.max_versions)
        IN  /\ \A f \in s.removed : f.name = s.name
            /\ newest \cap s.removed = {}
            /\ \A f \in s.removed :
                [f EXCEPT !.pkl = ~f.pkl] \in s.written => 
                    [f EXCEPT !.pkl = ~f.pkl] \in s.removed

\* ------------------------------------------------------------------------
\* A GameCartographer session
\* ------------------------------------------------------------------------
\* The games loaded as candidates: any of the stored games, in table order.
GameSelections ==
    {SelectSeq(GamePool, LAMBDA game : game.id \in ids) :
        ids \in SUBSET {GamePool[k].id : k \in 1..Len(GamePool)}}

InitGameSession ==
    /\ InitBase
    /\ InitConnecting /\ InitSweep /\ InitBaseCheck /\ InitAlertLog /\ InitGcs
    /\ InitModelDir /\ InitRetrying /\ InitAux
    /\ \E loaded \in GameSelections, swap \in BOOLEAN :
        InitGamesWith(loaded, swap)

NextGames == GameMap \/ get_or_create

SpecGames == InitGameSession /\ [][NextGames]_vars

C19_SingleTeamOnlyWhenOneIdKnown ==
    LET in == games.last.in
        game == games.last.match.game
        both == in.away_team_id # "None" /\ in.home_team_id # "None"
    IN  /\ (games.last.match.method = "single_team_id_date" => ~both)
        /\ (both /\ games.last.match.method
                    \in {"team_ids_date", "single_team_id_date"}
            => \/ game.away_team_id = in.away_team_id
                    /\ game.home_team_id = in.home_team_id
               \/ games.allow_swapped_teams
                    /\ game.away_team_id = in.home_team_id
                    /\ game.home_team_id = in.away_team_id)

\* ------------------------------------------------------------------------
\* Calls of a function wrapped by LoggerManager.retry
\* ------------------------------------------------------------------------
InitRetrySession == InitBase /\ InitOps

NextRetry == RetryWrapper \/ RetryAttempt \/ RetrySleep

SpecRetry == InitRetrySession /\ [][NextRetry]_vars

\* C20: the wrapped function is invoked at most `retries` times, the first
\* success ends the call, the wait after the failed attempt number k (from
\* 0) is 2^k seconds, and when every attempt has failed the caller gets the
\* failure of the function.
C20_RetryReraisesFailure ==
    /\ retrying.invoked <= retrying.retries
    /\ (retrying.pc = "returned" => retrying.invoked = retrying.attempt + 1)
    /\ \A k \in 1..Len(retrying.sleeps) : retrying.sleeps[k] = Pow2(k - 1)
    /\ (retrying.pc = "raised" /\ retrying.retries > 0
            => /\ retrying.invoked = retrying.retries
               /\ retrying.raised = retrying.failures[Len(retrying.failures)])

\* What the wrapper does keep of C20: at most `retries` invocations, the
\* first success returned at once, 2^k seconds after the k-th failure.
C20_RetryBounded ==
    /\ retrying.invoked <= retrying.retries
    /\ (retrying.pc = "returned" => retrying.invoked = retrying.attempt + 1)
    /\ \A k \in 1..Len(retrying.sleeps) : retrying.sleeps[k] = Pow2(k - 1)
    /\ (retrying.pc = "raised"
            => /\ retrying.invoked = retrying.retries
               /\ Len(retrying.sleeps) = retrying.retries
               /\ retrying.raised = "Exception")

\* ------------------------------------------------------------------------
\* The logger of one script run
\* ------------------------------------------------------------------------
InitLoggerSession == InitBase /\ InitOps

NextLogger == log \/ export_data \/ close_logger

SpecLogger == InitLoggerSession /\ [][NextLogger]_vars

\* the levels that carry warning or error severity, as callers write them
SevereLevels == {"warning", "error", "ERROR"}

\* C21: the process / process_run row written when the logger closes has
\* success = FALSE exactly when some message of the run was logged at warning
\* or error severity, the level "ERROR" of the repository's scripts included.
C21_SuccessReflectsSeverity ==
    \A i \in 1..Len(logger.process) :
        logger.process[i].success =
            ~(\E k \in 1..Len(logger.calls) : logger.calls[k] \in SevereLevels)

\* what the code does keep: success is FALSE exactly when a message arrived
\* with the lower-case level "warning" or "error"
C21_SuccessReflectsLowerCaseLevels ==
    \A i \in 1..Len(logger.process) :
        logger.process[i].success =
            ~(\E k \in 1..Len(logger.calls) :
                logger.calls[k] \in {"warning", "error"})

\* ------------------------------------------------------------------------
\* validate_cron_schedule on one schedule
\* ------------------------------------------------------------------------
InitCronSession ==
    /\ InitBase
    /\ InitConnecting /\ InitSweep /\ InitBaseCheck /\ InitAlertLog /\ InitGcs
    /\ InitModelDir /\ InitGames /\ InitRetrying /\ InitLogger /\ InitStale
    /\ InitRunners /\ InitMulti
    /\ \E schedule \in CronSchedules :
        cron = [IdleCron EXCEPT !.schedule = schedule]

NextCron == validate_cron_schedule

SpecCron == InitCronSession /\ [][NextCron]_vars

\* every number written in part i of a schedule, as single value or as an
\* endpoint of an a-b range, lies in the valid range of field i
NumbersInRange(parts) ==
    \A i \in 1..Len(parts) :
        parts[i].kind = "list" =>
            \A k \in 1..Len(parts[i].segs) :
                LET segment == parts[i].segs[k] IN
                Len(segment) \in {1, 2} =>
                    \A e \in 1..Len(segment) :
                        /\ segment[e] >= ranges[i][1]
                        /\ segment[e] <= ranges[i][2]

\* C22: validate_cron_schedule accepts a 5-field schedule only if every
\* explicit number in it (single values and both endpoints of every range) is
\* within its field's valid range; "70 * * * *" is rejected and
\* "0,30 9-17 * * 1-5" is accepted and returned with its ranges expanded.
C22_AcceptsOnlyNumbersInRange ==
    cron.done =>
        /\ cron.result.ok => NumbersInRange(cron.schedule)
        /\ cron.schedule = SeventyMinutes => ~cron.result.ok
        /\ cron.schedule = WorkingHours =>
            /\ cron.result.ok
            /\ cron.result.fixed =
                <<CronList(<< <<0>>, <<30>> >>),
                  CronList([j \in 1..9 |-> <<8 + j>>]), Star, Star,
                  CronList([j \in 1..5 |-> <<j>>])>>

\* what the code does keep: an accepted schedule has every single value in
\* range, every range's start at or above the field's lowest value and every
\* range's end at or below its highest, and the two examples come out as said
C22_AcceptsCheckedEndsOnly ==
    cron.done =>
        /\ cron.result.ok =>
            \A i \in 1..Len(cron.schedule) :
                cron.schedule[i].kind = "list" =>
                    \A k \in 1..Len(cron.schedule[i].segs) :
                        LET segment == cron.schedule[i].segs[k] IN
                        /\ Len(segment) \in {1, 2}
                        /\ segment[1] >= ranges[i][1]
                        /\ segment[Len(segment)] <= ranges[i][2]
        /\ cron.schedule = SeventyMinutes => ~cron.result.ok
        /\ cron.schedule = WorkingHours =>
            /\ cron.result.ok
            /\ cron.result.fixed[2] = CronList([j \in 1..9 |-> <<8 + j>>])

\* ------------------------------------------------------------------------
\* One StaleCheck evaluation
\* ------------------------------------------------------------------------
InitStaleSession ==
    /\ InitBase
    /\ InitConnecting /\ InitSweep /\ InitBaseCheck /\ InitAlertLog /\ InitGcs
    /\ InitModelDir /\ InitGames /\ InitRetrying /\ InitLogger /\ InitCron
    /\ InitRunners /\ InitMulti
    /\ \E configured \in BOOLEAN, tolerance \in 1..MaxTolerance,
          offset \in CentralOffsets :
        LET now == FirstHalfHour + HalfHoursPerDay IN
        \E column \in StaleColumns(now, offset) :
            stale = [IdleStale EXCEPT !.configured = configured,
                                      !.tolerance_in_hours = tolerance,
                                      !.offset = offset, !.now = now,
                                      !.column = column]

NextStale == check_condition

SpecStale == InitStaleSession /\ [][NextStale]_vars

\* the instant the monitored column's latest timestamp stands for
StaleInstant(c) ==
    IF c.column.kind = "naive" THEN c.column.wall + 2 * c.offset
    ELSE c.column.instant

\* C23: when the monitored column has a latest timestamp T, check_condition
\* reports triggered exactly when T is older than now minus tolerance_hours,
\* and returns T as the detail in both cases.
C23_TriggeredExactlyWhenOlder ==
    (stale.done /\ stale.configured /\ stale.column.kind \in {"naive", "aware"})
    => stale.result =
          [triggered |->
              StaleInstant(stale) < stale.now - 2 * stale.tolerance_in_hours,
           detail |-> TimestampDetail(StaleInstant(stale))]

\* what the code does keep: the statement holds for timestamps without a zone
C23_NaiveTriggeredExactlyWhenOlder ==
    (stale.done /\ stale.configured /\ stale.column.kind = "naive")
    => stale.result =
          [triggered |->
              StaleInstant(stale) < stale.now - 2 * stale.tolerance_in_hours,
           detail |-> TimestampDetail(StaleInstant(stale))]

\* ------------------------------------------------------------------------
\* execute() and insert_rows on a connection that the server may have
\* dropped while idle
\* ------------------------------------------------------------------------
NextExecute == NextInsertLost \/ execute

SpecExecute == InitInsert /\ [][NextExecute]_vars

\* C25: whenever no insert_rows call is in progress the live connection has
\* autocommit enabled, also after get_cursor() or an insert_rows error
\* handler has replaced a dead connection, so that what execute() has run is
\* committed without any later commit.
C25_AutocommitWhenIdle ==
    (call.pc \in {"idle", "done"} /\ _has_valid_connection(conn))
        => /\ conn.autocommit
           /\ table = txTable

\* what the code does keep: while the live connection is in autocommit mode
\* and no insert_rows call is in progress, nothing that was executed is left
\* uncommitted
C25_AutocommitLeavesNothingOpen ==
    (call.pc \in {"idle", "done"} /\ _has_valid_connection(conn)
        /\ conn.autocommit)
        => /\ table = txTable
           /\ conn.status = "idle"

\* ------------------------------------------------------------------------
\* Two ProcessRunner instances polling the same table
\* ------------------------------------------------------------------------
InitRunnersSession == InitBase /\ InitOps

NextRunners == insert_request \/ RunnersSelect \/ RunnersRunRequest

SpecRunners == InitRunnersSession /\ [][NextRunners]_vars

\* C26: when two ProcessRunner instances poll the table concurrently, a
\* not_started request is picked up, and its task's run() invoked, by at
\* most one of them.
C26_PickedUpByAtMostOne ==
    \A id \in 1..Len(requests) :
        /\ Cardinality(runners.pickedBy[id]) <= 1
        /\ Cardinality(runners.invokedBy[id]) <= 1

\* what the model shows of the code as it is: run_request raises before it
\* changes a row or invokes run(), for every instance
C26_NoRowClaimedNoRunInvoked ==
    /\ \A id \in 1..Len(requests) :
        /\ runners.invokedBy[id] = {}
        /\ requests[id].status = "not_started"

\* ------------------------------------------------------------------------
\* run_multiple_jobs: several monitored executions of one job
\* ------------------------------------------------------------------------
InitMultiSession == InitBase /\ InitOps

NextMulti == MultiLaunch \/ ExecutionProgress \/ MultiPoll

SpecMulti == InitMultiSession /\ [][NextMulti]_vars

\* C27: the status a run_job call of run_multiple_jobs returns is the final
\* state of the execution this call itself started, not the state of
\* another execution started concurrently.
C27_ReturnsOwnExecution ==
    \A w \in Threads :
        (multi.thread[w].pc = "done" /\ multi.thread[w].own # 0) =>
            /\ multi.executions[multi.thread[w].own] \in ExecutionEnded
            /\ multi.thread[w].status =
                _get_latest_execution_status(
                    multi.executions[multi.thread[w].own])

\* what the code does keep: the status returned is the final state of the
\* job's newest execution at the time of the read
C27_ReturnsNewestExecution ==
    \A w \in Threads :
        (multi.thread[w].pc = "done" /\ multi.thread[w].own # 0) =>
            /\ multi.thread[w].read >= multi.thread[w].own
            /\ multi.executions[multi.thread[w].read] \in ExecutionEnded
            /\ multi.thread[w].status =
                _get_latest_execution_status(
                    multi.executions[multi.thread[w].read])

=============================================================================
